---- MODULE Spec2Model ----
(***************************************************************************)
(* Bike-service: order lifecycle controller (service/views_staff.py,       *)
(* service/admin.py) and the versioned dashboard cache                     *)
(* (service/view_common.py).                                               *)
(*                                                                         *)
(* Each HTTP request is handled by a worker.  A request that edits an      *)
(* order first reads the row (Load), then runs the handler body up to and  *)
(* including order.save() and the cache.add of invalidate_dashboard_cache  *)
(* in one step, and, when the add found the key present, finishes with the *)
(* cache.incr step (InvalidateIncr) followed by the rest of the handler.   *)
(* No handler runs inside a transaction that spans its read and its write  *)
(* (ATOMIC_REQUESTS is not set), so other requests interleave between the  *)
(* steps.                                                                  *)
(***************************************************************************)
EXTENDS Integers, Sequences, FiniteSets, TLC

\* ---------------------------------------------------------------- bounds
MaxOrders == 1
NumWorkers == 2
MaxTime == 3
MaxClock == 60
MaxAttempts == 9
MaxCatalog == 3
MaxDay == 6
MaxRows == 2
MaxTickets == 2
MaxTicketTime == 4
MaxProfiles == 2
MaxUsers == 2
MaxWindowClock == 450
MaxJobs == 2
MaxBikes == 2

Workers == 1..NumWorkers

\* ------------------------------------------------------- program constants
\* NULL of the nullable columns completed_at and promised_date; time stamps
\* and dates are positive.
Null == 0
\* an absent cache key
Absent == 0

\* settings.SERVICE_DASHBOARD_CACHE_TTL, in seconds
SERVICE_DASHBOARD_CACHE_TTL == 60

\* login_view: is_rate_limited(scope="login", ident=ip, limit=8, ...)
LoginLimit == 8

Status == {"NEW", "IN_PROGRESS", "WAITING_PART", "READY", "DONE"}
DONE == "DONE"

CHECKLIST_DEFS ==
  {"brakes", "shifting", "tyre_pressure", "bearings", "torque", "chain", "wheels", "cleaning"}

\* prices are in cents (DecimalField with two decimal places)
SERVICE_PACKAGE_DEFS ==
  [basic |-> [price |-> 2900, work_done |-> "basic_text",
              checklist_keys |-> {"brakes", "shifting", "tyre_pressure", "torque"}],
   full |-> [price |-> 6900, work_done |-> "full_text",
             checklist_keys |-> CHECKLIST_DEFS],
   brake_setup |-> [price |-> 3900, work_done |-> "brake_setup_text",
                    checklist_keys |-> {"brakes", "torque", "wheels"}]]

\* JSONField(default=dict): the checklist of a new order is the empty mapping
EmptyChecklist == [k \in {} |-> FALSE]

\* ------------------------------------------------------------ conversions
Digits == {"0", "1", "2", "3", "4", "5", "6", "7", "8", "9"}

DigitVal(c) ==
  CASE c = "0" -> 0 [] c = "1" -> 1 [] c = "2" -> 2 [] c = "3" -> 3 [] c = "4" -> 4
    [] c = "5" -> 5 [] c = "6" -> 6 [] c = "7" -> 7 [] c = "8" -> 8 [] c = "9" -> 9
    [] OTHER -> 0

\* price_raw.replace(",", ".")
Normalize(s) == [i \in 1..Len(s) |-> IF s[i] = "," THEN "." ELSE s[i]]

DotPositions(s) == {i \in 1..Len(s) : s[i] = "."}

\* Decimal(normalized) succeeds: an unsigned decimal numeral, digits with at
\* most one point and at least one digit (the inputs carry no sign, exponent
\* or blank).  Anything else raises InvalidOperation.
IsDecimal(s) ==
  /\ \A i \in 1..Len(s) : s[i] \in Digits \cup {"."}
  /\ Cardinality(DotPositions(s)) <= 1
  /\ \E i \in 1..Len(s) : s[i] \in Digits

RECURSIVE DigitsValue(_)
DigitsValue(s) ==
  IF Len(s) = 0 THEN 0
  ELSE DigitsValue(SubSeq(s, 1, Len(s) - 1)) * 10 + DigitVal(s[Len(s)])

\* the value of Decimal(s) in cents, for numerals of at most two decimals
DecimalCents(s) ==
  LET dots == DotPositions(s)
      p == IF dots = {} THEN Len(s) + 1 ELSE CHOOSE i \in dots : TRUE
      int == SubSeq(s, 1, p - 1)
      frac == SubSeq(s, p + 1, Len(s))
  IN DigitsValue(int) * 100
     + (IF Len(frac) = 0 THEN 0
        ELSE IF Len(frac) = 1 THEN DigitVal(frac[1]) * 10
        ELSE DigitVal(frac[1]) * 10 + DigitVal(frac[2]))

\* the ISO dates used as inputs, as day numbers
IsoDay == [d \in {"2026-11-10", "2026-11-12"} |-> IF d = "2026-11-10" THEN 10 ELSE 12]

\* _parse_date: None for an empty or malformed value, else the date
parse_date(value) ==
  IF value = "" THEN Null
  ELSE IF value \in DOMAIN IsoDay THEN IsoDay[value]
  ELSE Null

\* ------------------------------------------------------------------ state
VARIABLES
  orders,         \* ServiceOrder table: row of order id i at index i
  customerEmail,  \* customerEmail[i]: order i's bike.customer.email is non-empty
  logs,           \* ServiceOrderLog rows in insertion order
  outbox,         \* jobs handed to send_plain_email_task.delay, in order
  cacheVersion,   \* cache key "service:dashboard:version" (Absent or a number)
  cacheStats,     \* cache keys "service:dashboard:stats:v<version>:<today>": the
                  \* snapshot stored under each version, with the value of gen
                  \* at the time it was computed
  now,            \* clock read by timezone.now()
  pc,             \* per worker: "idle", "loaded" (row read), "incr" (add failed)
  loaded,         \* per worker: the in-memory ServiceOrder instance
  req,            \* per worker: the request in progress
  last,           \* the request answered most recently, with its outcome
  lastGet,        \* result of the last get_staff_dashboard_counts
  gen,            \* number of invalidate_dashboard_cache calls that returned
  broker,         \* the Celery broker as seen by .delay: "up" or "down"
  delivery,       \* outcome of send_plain_email_task for each job taken so far
  rateCount,      \* cache key "rl:login:<ip>" (Absent or the attempt count)
  clock,          \* the cache backend's clock, in seconds
  catalog,        \* the searchable text of the orders: code, customer, bike, tickets
  lastSearch,     \* the last search of the service panel: query, rows, result
  lastCall,       \* the last call of a helper of the panel: arguments and result
  tickets,        \* Ticket table: row of ticket id i at index i
  profiles,       \* CustomerProfile table: row of profile id i at index i
  bikes,          \* Bike table: row of bike id i at index i
  users,          \* auth User table: row of user id i at index i
  passwordRate,   \* cache key "rl:set_password:<ip>" (Absent or the attempt count)
  rateStoredAt    \* the time cache.add stored the key "rl:login:<ip>"

\* the tables and results of the customer portal, tickets and panel helpers
portalVars == <<lastCall, tickets, profiles, bikes, users, passwordRate, rateStoredAt>>

\* the part of the state the order handlers never write
envVars == <<broker, delivery, rateCount, clock, catalog, lastSearch, portalVars>>

\* the part of the state only the service panel's search uses
searchVars == <<catalog, lastSearch, portalVars>>

vars == <<orders, customerEmail, logs, outbox, cacheVersion, cacheStats, now,
          pc, loaded, req, last, lastGet, gen, broker, delivery, rateCount, clock,
          catalog, lastSearch, lastCall, tickets, profiles, bikes, users, passwordRate, rateStoredAt>>

\* ServiceOrder.objects.create(bike=..., issue_description=..., status=NEW)
NewOrder(issue_description) ==
  [status |-> "NEW", completed_at |-> Null, promised_date |-> Null, price |-> 0,
   work_done |-> "", issue_description |-> issue_description,
   checklist |-> EmptyChecklist]

NoInstance == NewOrder("")

NoRequest ==
  [op |-> "none", order |-> 0,
   statusBefore |-> "NEW", completedBefore |-> Null,
   statusAfter |-> "NEW", completedAfter |-> Null,
   stale |-> FALSE, lost |-> FALSE, notify |-> FALSE,
   invalidated |-> FALSE, verAtCall |-> 0, price_raw |-> <<>>,
   package |-> "", cl |-> EmptyChecklist, checklistBefore |-> EmptyChecklist,
   fallback |-> FALSE]

NoGet == [hit |-> FALSE, gen |-> 0, genAtRead |-> 0,
          data |-> [unfinished_count |-> 0, stat_orders_new |-> 0,
                    stat_orders_in_progress |-> 0, stat_orders_done_today |-> 0],
          age |-> 0, fresh |-> TRUE, expired |-> FALSE, unfinished |-> 0]

NoSnapshots == [v \in {} |-> NoGet.data]

Init ==
  /\ orders = <<>>
  /\ customerEmail = <<>>
  /\ logs = <<>>
  /\ outbox = <<>>
  /\ cacheVersion = Absent
  /\ cacheStats = NoSnapshots
  /\ now = 0
  /\ pc = [w \in Workers |-> "idle"]
  /\ loaded = [w \in Workers |-> NoInstance]
  /\ req = [w \in Workers |-> NoRequest]
  /\ last = [request |-> NoRequest, result |-> "none"]
  /\ lastGet = NoGet
  /\ gen = 0
  /\ broker = "up"
  /\ delivery = <<>>
  /\ rateCount = Absent
  /\ clock = 0
  /\ catalog = {}
  /\ lastSearch = [query |-> <<>>, rows |-> {}, found |-> {}, count |-> <<>>]
  /\ lastCall = [fn |-> "none"]
  /\ tickets = <<>>
  /\ profiles = <<>>
  /\ bikes = <<>>
  /\ users = <<>>
  /\ passwordRate = Absent
  /\ rateStoredAt = 0

\* ------------------------------------------------------- dashboard cache
\* cache.get("service:dashboard:version", 1)
ReadVersion(version) == IF version = Absent THEN 1 ELSE version

\* cache.incr on a present key; on an absent key it raises ValueError and
\* the handler of the exception stores 1
IncrOrReset_NoFallback(version) == IF version = Absent THEN Absent ELSE version + 1
IncrOrReset(version) == IF version = Absent THEN 1 ELSE version + 1

\* the cache backend's expiry test for an entry stored with timeout
\* ttl_seconds: the entry is gone once its age reaches the timeout
Expired_Never(entry, t) == FALSE
Expired(entry, t) == t >= entry.storedAt + SERVICE_DASHBOARD_CACHE_TTL

\* cache.incr as the caller uses it: the backend adds one to the value it
\* holds at that moment; the value the caller saw at its cache.add plays no part
AtomicIncr_ReadModifyWrite(current, seen) == seen + 1
AtomicIncr(current, seen) == IncrOrReset(current)

\* the order counters of get_staff_dashboard_counts, computed from the table;
\* every completed_at of the model falls on the day "today"
ComputeStats(tbl) ==
  [unfinished_count |-> Cardinality({i \in 1..Len(tbl) : tbl[i].status # DONE}),
   stat_orders_new |->
     Cardinality({i \in 1..Len(tbl) : tbl[i].completed_at = Null /\ tbl[i].status = "NEW"}),
   stat_orders_in_progress |->
     Cardinality({i \in 1..Len(tbl) :
                    tbl[i].completed_at = Null /\ tbl[i].status = "IN_PROGRESS"}),
   stat_orders_done_today |->
     Cardinality({i \in 1..Len(tbl) : tbl[i].completed_at # Null})]

\* ------------------------------------------------- handler bodies (pure)
Columns ==
  {"status", "completed_at", "promised_date", "price", "work_done",
   "issue_description", "checklist"}

\* Model.save(update_fields=fields): one UPDATE that writes the named columns
\* of the in-memory instance and leaves the other columns of the row alone
Save(stored, instance, fields) ==
  [c \in Columns |-> IF c \in fields THEN instance[c] ELSE stored[c]]

\* update_fields of the save of row_update_status
RowUpdateStatusColumns_StatusOnly == {"status"}
RowUpdateStatusColumns == {"status", "completed_at"}

\* update_fields of the save of row_update_eta
RowUpdateEtaColumns == {"promised_date"}

\* update_fields of the save of apply_service_package
ApplyPackageColumns_All ==
  {"status", "completed_at", "promised_date", "price", "work_done",
   "issue_description", "checklist"}
ApplyPackageColumns == {"price", "work_done", "checklist"}

\* order.save() of the detail form writes every column
DetailSaveColumns_Partial ==
  {"status", "completed_at", "promised_date", "issue_description", "work_done"}
DetailSaveColumns == Columns

\* the detail form returns before order.save() when the price is rejected
PriceErrorColumns_Early == {"status", "promised_date", "checklist"}
PriceErrorColumns == {}

\* row_update_status: the in-memory instance at order.save
RowUpdateStatusInstance_AlwaysStamp(order, new_status, t) ==
  [order EXCEPT !.status = new_status,
                !.completed_at = IF new_status = DONE THEN t ELSE Null]
RowUpdateStatusInstance_NoReopen(order, new_status, t) ==
  IF order.status = DONE THEN order
  ELSE [order EXCEPT !.status = new_status,
                     !.completed_at = IF new_status = DONE THEN t ELSE Null]
RowUpdateStatusInstance(order, new_status, t) ==
  [order EXCEPT !.status = new_status,
                !.completed_at =
                  IF new_status = DONE
                  THEN (IF order.completed_at = Null THEN t ELSE order.completed_at)
                  ELSE Null]

\* apply_service_package: the in-memory instance after the three assignments
ApplyPackageInstance_Merge(order, package) ==
  [order EXCEPT !.price = package.price,
                !.work_done = package.work_done,
                !.checklist = [key \in CHECKLIST_DEFS |->
                                 \/ key \in package.checklist_keys
                                 \/ key \in DOMAIN order.checklist /\ order.checklist[key]]]
ApplyPackageInstance(order, package) ==
  [order EXCEPT !.price = package.price,
                !.work_done = package.work_done,
                !.checklist = [key \in CHECKLIST_DEFS |-> key \in package.checklist_keys]]

\* detail form: the price input is rejected by Decimal()
PriceError(form) ==
  /\ Len(form.price) > 0
  /\ ~IsDecimal(Normalize(form.price))

\* detail form: the in-memory instance when the price input is examined
DetailFormBeforePrice_AlwaysReplace(order, form) ==
  [order EXCEPT
     !.status = IF form.status \in Status THEN form.status ELSE order.status,
     !.promised_date = parse_date(form.promised_date),
     !.checklist = [key \in CHECKLIST_DEFS |-> key \in DOMAIN form.cl /\ form.cl[key] # ""]]
DetailFormBeforePrice(order, form) ==
  [order EXCEPT
     !.status = IF form.status \in Status THEN form.status ELSE order.status,
     !.promised_date = parse_date(form.promised_date),
     !.checklist =
       IF \E key \in CHECKLIST_DEFS : key \in DOMAIN form.cl
       THEN [key \in CHECKLIST_DEFS |-> key \in DOMAIN form.cl /\ form.cl[key] # ""]
       ELSE order.checklist]

\* detail form: the in-memory instance at order.save() (price accepted)
DetailFormInstance(order, form, t) ==
  LET o1 == DetailFormBeforePrice(order, form)
      price == IF Len(form.price) > 0 THEN DecimalCents(Normalize(form.price))
               ELSE o1.price
      completed_at ==
        IF o1.status # DONE THEN Null
        ELSE IF o1.completed_at = Null THEN t
        ELSE o1.completed_at
  IN [o1 EXCEPT !.price = price,
                !.issue_description = form.issue_description,
                !.work_done = form.work_done,
                !.completed_at = completed_at]

\* detail form: just_completed
DetailJustCompleted(order, form) ==
  LET o1 == DetailFormBeforePrice(order, form)
  IN o1.status = DONE /\ o1.completed_at = Null

\* admin site: the row after super().save_model and the completed_at fix-up;
\* completed_at is a read-only field of the admin form
AdminSaveInstance(obj, new_status, t) ==
  [obj EXCEPT !.status = new_status,
              !.completed_at = IF new_status = DONE /\ obj.completed_at = Null
                               THEN t ELSE obj.completed_at]

\* admin site: the condition under which the customer is notified
AdminNotify(obj, prev, new_status) ==
  LET just_completed ==
        \/ new_status = DONE /\ obj.completed_at = Null
        \/ new_status = DONE /\ prev.status # DONE
  IN just_completed /\ prev.completed_at = Null

\* ---------------------------------------------------------------- steps
\* _send_email_safely: send_plain_email_task.delay publishes the job to the
\* broker and raises when the broker cannot be reached; neither
\* _send_email_safely nor its callers catch the exception
HandoffRaises(notify, brokerState) == notify /\ brokerState = "down"

\* the rest of a handler after its last cache call: the notification, the
\* audit log entry and the response
Respond(w, r, result) ==
  LET raised == HandoffRaises(r.notify, broker)
  IN /\ outbox' = IF r.notify /\ ~raised
                  THEN Append(outbox, [order |-> r.order, kind |-> "service_done"])
                  ELSE outbox
     /\ logs' = IF r.notify /\ ~raised
                THEN Append(logs, [order |-> r.order, kind |-> "EMAIL_DONE"])
                ELSE logs
     /\ gen' = IF r.invalidated THEN gen + 1 ELSE gen
     /\ pc' = [pc EXCEPT ![w] = "idle"]
     /\ loaded' = [loaded EXCEPT ![w] = NoInstance]
     /\ req' = [req EXCEPT ![w] = NoRequest]
     /\ last' = [request |-> r, result |-> IF raised THEN "server_error" ELSE result]

\* invalidate_dashboard_cache, first half: cache.add stores 1 and returns
\* when the key is absent; otherwise the call goes on to cache.incr
invalidate_dashboard_cache(w, r) ==
  LET r1 == [r EXCEPT !.invalidated = TRUE, !.verAtCall = ReadVersion(cacheVersion)]
  IN IF cacheVersion = Absent
     THEN /\ cacheVersion' = 1
          /\ Respond(w, r1, "success")
     ELSE /\ cacheVersion' = cacheVersion
          /\ pc' = [pc EXCEPT ![w] = "incr"]
          /\ loaded' = [loaded EXCEPT ![w] = NoInstance]
          /\ req' = [req EXCEPT ![w] = r1]
          /\ UNCHANGED <<outbox, logs, gen, last>>

\* invalidate_dashboard_cache, second half: cache.incr, or the ValueError
\* fallback cache.set(..., 1) when the key has vanished since the add
InvalidateIncr(w) ==
  /\ pc[w] = "incr"
  /\ cacheVersion' = AtomicIncr(cacheVersion, req[w].verAtCall)
  /\ Respond(w, [req[w] EXCEPT !.fallback = (cacheVersion = Absent)], "success")
  /\ UNCHANGED <<orders, customerEmail, cacheStats, now, lastGet>>
  /\ UNCHANGED envVars

\* the request record once the handler has written the row `after`
Committed(w, op, after) ==
  LET o == req[w].order
  IN [req[w] EXCEPT !.op = op,
                    !.statusBefore = orders[o].status,
                    !.completedBefore = orders[o].completed_at,
                    !.statusAfter = after.status,
                    !.completedAfter = after.completed_at,
                    !.checklistBefore = orders[o].checklist,
                    !.stale = (loaded[w] # orders[o])]

\* get_object_or_404 / filter(pk=...).first(): read the row of order o
Load(w, o) ==
  /\ pc[w] = "idle"
  /\ o \in 1..Len(orders)
  /\ pc' = [pc EXCEPT ![w] = "loaded"]
  /\ loaded' = [loaded EXCEPT ![w] = orders[o]]
  /\ req' = [req EXCEPT ![w] = [NoRequest EXCEPT !.op = "load", !.order = o]]
  /\ UNCHANGED <<orders, customerEmail, logs, outbox, cacheVersion, cacheStats,
                 now, last, lastGet, gen>>
  /\ UNCHANGED envVars

\* create_service_order (POST): a new order on a bike whose customer has or
\* has not an email on file
CreateServiceOrder(w, issue_description, email) ==
  /\ pc[w] = "idle"
  /\ Len(orders) < MaxOrders
  /\ now < MaxTime
  /\ now' = now + 1
  /\ orders' = Append(orders, NewOrder(issue_description))
  /\ customerEmail' = Append(customerEmail, email)
  /\ invalidate_dashboard_cache(w,
       [NoRequest EXCEPT !.op = "create", !.order = Len(orders) + 1])
  /\ UNCHANGED <<cacheStats, lastGet>>
  /\ UNCHANGED envVars

\* service_panel POST, action row_update_status
RowUpdateStatus(w, new_status) ==
  /\ pc[w] = "loaded"
  /\ LET o == req[w].order
         after == Save(orders[o],
                       RowUpdateStatusInstance(loaded[w], new_status, now + 1),
                       RowUpdateStatusColumns)
     IN IF new_status \in Status
        THEN /\ now < MaxTime
             /\ now' = now + 1
             /\ orders' = [orders EXCEPT ![o] = after]
             /\ invalidate_dashboard_cache(w, Committed(w, "row_update_status", after))
        ELSE /\ Respond(w, [req[w] EXCEPT !.op = "row_update_status"], "error")
             /\ UNCHANGED <<orders, now, cacheVersion>>
  /\ UNCHANGED <<customerEmail, cacheStats, lastGet>>
  /\ UNCHANGED envVars

\* service_panel POST, action row_update_eta
RowUpdateEta(w, promised_raw) ==
  /\ pc[w] = "loaded"
  /\ now < MaxTime
  /\ now' = now + 1
  /\ LET o == req[w].order
         after == Save(orders[o],
                       [loaded[w] EXCEPT !.promised_date = parse_date(promised_raw)],
                       RowUpdateEtaColumns)
     IN /\ orders' = [orders EXCEPT ![o] = after]
        /\ invalidate_dashboard_cache(w, Committed(w, "row_update_eta", after))
  /\ UNCHANGED <<customerEmail, cacheStats, lastGet>>
  /\ UNCHANGED envVars

\* service_order_admin_detail POST, action apply_service_package
ApplyServicePackage(w, package_key) ==
  /\ pc[w] = "loaded"
  /\ LET o == req[w].order
     IN IF package_key \in DOMAIN SERVICE_PACKAGE_DEFS
        THEN LET after == Save(orders[o],
                               ApplyPackageInstance(loaded[w],
                                                    SERVICE_PACKAGE_DEFS[package_key]),
                               ApplyPackageColumns)
             IN /\ now < MaxTime
                /\ now' = now + 1
                /\ orders' = [orders EXCEPT ![o] = after]
                /\ invalidate_dashboard_cache(w,
                     [Committed(w, "apply_service_package", after) EXCEPT
                        !.package = package_key])
        ELSE /\ Respond(w, [req[w] EXCEPT !.op = "apply_service_package"], "error")
             /\ UNCHANGED <<orders, now, cacheVersion>>
  /\ UNCHANGED <<customerEmail, cacheStats, lastGet>>
  /\ UNCHANGED envVars

\* service_order_admin_detail POST without an action: the detail form
DetailSave(w, form) ==
  /\ pc[w] = "loaded"
  /\ LET o == req[w].order
         r == [req[w] EXCEPT !.op = "detail_save", !.price_raw = form.price]
     IN IF PriceError(form)
        THEN /\ orders' = [orders EXCEPT
                             ![o] = Save(orders[o],
                                         DetailFormBeforePrice(loaded[w], form),
                                         PriceErrorColumns)]
             /\ Respond(w, r, "validation_error")
             /\ UNCHANGED <<now, cacheVersion>>
        ELSE LET instance == DetailFormInstance(loaded[w], form, now + 1)
                 after == Save(orders[o], instance, DetailSaveColumns)
                 fresh == DetailFormInstance(orders[o], form, now + 1)
             IN /\ now < MaxTime
                /\ now' = now + 1
                /\ orders' = [orders EXCEPT ![o] = after]
                /\ invalidate_dashboard_cache(w,
                     [Committed(w, "detail_save", after) EXCEPT
                        !.price_raw = form.price,
                        !.cl = form.cl,
                        !.notify = DetailJustCompleted(loaded[w], form)
                                   /\ customerEmail[o],
                        !.lost = (after # fresh)])
  /\ UNCHANGED <<customerEmail, cacheStats, lastGet>>
  /\ UNCHANGED envVars

\* admin site: ServiceOrderAdmin.save_model for a change of the status field
\* (the other form fields are posted back as they were read)
AdminSave(w, new_status) ==
  /\ pc[w] = "loaded"
  /\ new_status \in Status
  /\ now < MaxTime
  /\ now' = now + 1
  /\ LET o == req[w].order
         after == Save(orders[o], AdminSaveInstance(loaded[w], new_status, now + 1),
                       Columns)
     IN /\ orders' = [orders EXCEPT ![o] = after]
        /\ Respond(w,
             [Committed(w, "admin_save", after) EXCEPT
                !.notify = AdminNotify(loaded[w], orders[o], new_status)
                           /\ customerEmail[o]],
             "success")
  /\ UNCHANGED <<customerEmail, cacheVersion, cacheStats, lastGet>>
  /\ UNCHANGED envVars

\* get_staff_dashboard_counts(today): a hit on the versioned key, or a
\* recomputation stored under that key
GetStaffDashboardCounts ==
  LET version == ReadVersion(cacheVersion)
      data == ComputeStats(orders)
      stored == version \in DOMAIN cacheStats
  IN /\ IF stored /\ ~Expired(cacheStats[version], clock)
        THEN /\ lastGet' = [hit |-> TRUE, gen |-> cacheStats[version].gen,
                            genAtRead |-> gen, data |-> cacheStats[version].data,
                            age |-> clock - cacheStats[version].storedAt,
                            fresh |-> (cacheStats[version].data = data),
                            expired |-> FALSE,
                            unfinished |-> data.unfinished_count]
             /\ UNCHANGED cacheStats
        ELSE /\ lastGet' = [hit |-> FALSE, gen |-> gen, genAtRead |-> gen, data |-> data,
                            age |-> 0, fresh |-> TRUE, expired |-> stored,
                            unfinished |-> data.unfinished_count]
             /\ cacheStats' = (version :> [gen |-> gen, data |-> data, storedAt |-> clock])
                              @@ cacheStats
     /\ UNCHANGED <<orders, customerEmail, logs, outbox, cacheVersion, now, pc,
                    loaded, req, last, gen>>
     /\ UNCHANGED envVars

\* the snapshot stored under version v has reached its TTL and the backend
\* removes it
ExpireSnapshot(v) ==
  /\ v \in DOMAIN cacheStats
  /\ Expired(cacheStats[v], clock)
  /\ cacheStats' = [u \in DOMAIN cacheStats \ {v} |-> cacheStats[u]]
  /\ UNCHANGED <<orders, customerEmail, logs, outbox, cacheVersion, now, pc,
                 loaded, req, last, lastGet, gen>>
  /\ UNCHANGED envVars

\* time passes
Tick(seconds) ==
  /\ clock + seconds <= MaxClock
  /\ clock' = clock + seconds
  /\ UNCHANGED <<orders, customerEmail, logs, outbox, cacheVersion, cacheStats, now,
                 pc, loaded, req, last, lastGet, gen, broker, delivery, rateCount>>
  /\ UNCHANGED searchVars

\* the cache backend drops the version key (LocMemCache cull or restart,
\* Redis eviction or flush): the case the ValueError fallback is written for
EvictVersion ==
  /\ cacheVersion # Absent
  /\ cacheVersion' = Absent
  /\ UNCHANGED <<orders, customerEmail, logs, outbox, cacheStats, now, pc,
                 loaded, req, last, lastGet, gen>>
  /\ UNCHANGED envVars

\* the Celery broker becomes unreachable / reachable again
BrokerFails ==
  /\ broker = "up"
  /\ broker' = "down"
  /\ UNCHANGED <<orders, customerEmail, logs, outbox, cacheVersion, cacheStats, now,
                 pc, loaded, req, last, lastGet, gen, delivery, rateCount, clock>>
  /\ UNCHANGED searchVars

BrokerRecovers ==
  /\ broker = "down"
  /\ broker' = "up"
  /\ UNCHANGED <<orders, customerEmail, logs, outbox, cacheVersion, cacheStats, now,
                 pc, loaded, req, last, lastGet, gen, delivery, rateCount, clock>>
  /\ UNCHANGED searchVars

\* send_plain_email_task: True when send_mail went through; an exception of
\* send_mail is caught and logged and the task returns False
send_plain_email_task(send_mail_ok) == IF send_mail_ok THEN "sent" ELSE "failed"

\* the Celery worker runs send_plain_email_task for the next queued job
DeliverEmail(send_mail_ok) ==
  /\ Len(delivery) < Len(outbox)
  /\ delivery' = Append(delivery, send_plain_email_task(send_mail_ok))
  /\ UNCHANGED <<orders, customerEmail, logs, outbox, cacheVersion, cacheStats, now,
                 pc, loaded, req, last, lastGet, gen, broker, rateCount, clock>>
  /\ UNCHANGED searchVars

\* is_rate_limited: the count returned by cache.incr exceeds the limit
OverLimit_Inclusive(count, limit) == count >= limit
OverLimit(count, limit) == count > limit

\* login_view POST, is_rate_limited up to cache.add: the add stores 1 and the
\* attempt is not limited when the key is absent; otherwise cache.incr follows
LoginAdd(w) ==
  /\ pc[w] = "idle"
  /\ rateCount' = IF rateCount = Absent THEN 1 ELSE rateCount
  /\ rateStoredAt' = IF rateCount = Absent THEN clock ELSE rateStoredAt
  /\ pc' = [pc EXCEPT ![w] = IF rateCount = Absent THEN "auth" ELSE "rl_incr"]
  /\ req' = [req EXCEPT ![w] = [NoRequest EXCEPT !.op = "login"]]
  /\ UNCHANGED <<orders, customerEmail, logs, outbox, cacheVersion, cacheStats, now,
                 loaded, last, lastGet, gen, broker, delivery, clock>>
  /\ UNCHANGED <<catalog, lastSearch, lastCall, tickets, profiles, bikes, users,
                 passwordRate>>

\* is_rate_limited, cache.incr: on a key that has vanished since the add it
\* raises ValueError, which neither is_rate_limited nor login_view catches
LoginIncr(w) ==
  /\ pc[w] = "rl_incr"
  /\ IF rateCount = Absent
     THEN /\ Respond(w, req[w], "server_error")
          /\ UNCHANGED rateCount
     ELSE /\ rateCount < MaxAttempts
          /\ rateCount' = rateCount + 1
          /\ IF OverLimit(rateCount + 1, LoginLimit)
             THEN Respond(w, req[w], "rate_limited")
             ELSE /\ pc' = [pc EXCEPT ![w] = "auth"]
                  /\ UNCHANGED <<outbox, logs, gen, loaded, req, last>>
  /\ UNCHANGED <<orders, customerEmail, cacheVersion, cacheStats, now, lastGet,
                 broker, delivery, clock>>
  /\ UNCHANGED searchVars

\* login_view after the rate check: a successful authentication calls
\* reset_rate_limit (cache.delete), a failed one shows the error
LoginAuth(w, authenticated) ==
  /\ pc[w] = "auth"
  /\ rateCount' = IF authenticated THEN Absent ELSE rateCount
  /\ Respond(w, req[w], IF authenticated THEN "logged_in" ELSE "bad_credentials")
  /\ UNCHANGED <<orders, customerEmail, cacheVersion, cacheStats, now, lastGet,
                 broker, delivery, clock>>
  /\ UNCHANGED searchVars

\* the rate-limit key reaches the end of its window (timeout=window_seconds)
ExpireRateKey ==
  /\ rateCount # Absent
  /\ rateCount' = Absent
  /\ UNCHANGED <<orders, customerEmail, logs, outbox, cacheVersion, cacheStats, now,
                 pc, loaded, req, last, lastGet, gen, broker, delivery, clock>>
  /\ UNCHANGED searchVars

\* window_seconds of the login limit
LoginWindow == 300

\* time passes on the cache backend's clock; the login key is gone once its
\* age reaches the timeout it was stored with (cache.incr leaves the timeout
\* as cache.add set it)
TickWindow(seconds) ==
  /\ clock + seconds <= MaxWindowClock
  /\ clock' = clock + seconds
  /\ rateCount' = IF rateCount # Absent /\ clock' >= rateStoredAt + LoginWindow
                  THEN Absent ELSE rateCount
  /\ UNCHANGED <<orders, customerEmail, logs, outbox, cacheVersion, cacheStats, now,
                 pc, loaded, req, last, lastGet, gen, broker, delivery>>
  /\ UNCHANGED searchVars

\* --------------------------------------------------------- smart search
\* text is a sequence of characters
Whitespace == {" "}

\* str.strip()
RECURSIVE Strip(_)
Strip(s) ==
  IF Len(s) = 0 THEN s
  ELSE IF Head(s) \in Whitespace THEN Strip(Tail(s))
  ELSE IF s[Len(s)] \in Whitespace THEN Strip(SubSeq(s, 1, Len(s) - 1))
  ELSE s

\* lower case of the letters that occur in the data
LowerChar(c) ==
  CASE c = "A" -> "a" [] c = "B" -> "b" [] c = "K" -> "k" [] c = "L" -> "l"
    [] c = "N" -> "n" [] c = "E" -> "e" [] c = "Y" -> "y"
    [] OTHER -> c

Lower(s) == [i \in 1..Len(s) |-> LowerChar(s[i])]

Contains(haystack, needle) ==
  \E i \in 0..(Len(haystack) - Len(needle)) : SubSeq(haystack, i + 1, i + Len(needle)) = needle

\* field__icontains=token
IContains(field, token) == Contains(Lower(field), Lower(token))

\* re.sub(r"\D+", "", token)
OnlyDigits(s) == SelectSeq(s, LAMBDA c : c \in Digits)

\* re.fullmatch(r"#?\s*(\d+)", q): the digits of group 1, or the empty text
\* when q does not match
CodeMatch(q) ==
  LET rest == IF Len(q) > 0 /\ Head(q) = "#" THEN Tail(q) ELSE q
      first == IF \E i \in 1..Len(rest) : rest[i] \notin Whitespace
               THEN CHOOSE i \in 1..Len(rest) :
                      /\ rest[i] \notin Whitespace
                      /\ \A j \in 1..(i - 1) : rest[j] \in Whitespace
               ELSE Len(rest) + 1
      digits == SubSeq(rest, first, Len(rest))
  IN IF Len(digits) > 0 /\ \A i \in 1..Len(digits) : digits[i] \in Digits
     THEN digits ELSE <<>>

\* [t for t in re.split(r"\s+", q) if t]
RECURSIVE Split(_)
Split(s) ==
  IF Len(s) = 0 THEN <<>>
  ELSE IF Head(s) \in Whitespace THEN Split(Tail(s))
  ELSE LET n == IF \E i \in 1..Len(s) : s[i] \in Whitespace
                THEN (CHOOSE i \in 1..Len(s) :
                        /\ s[i] \in Whitespace
                        /\ \A j \in 1..(i - 1) : s[j] \notin Whitespace) - 1
                ELSE Len(s)
       IN <<SubSeq(s, 1, n)>> \o Split(SubSeq(s, n + 1, Len(s)))

\* the text columns of an order (with its bike and customer) that the token
\* filter looks at
TextFields(o) ==
  {o.full_name, o.email, o.brand, o.model, o.serial_number, o.issue_description,
   o.work_done, o.service_code}

\* token_filter: the Q object built for one token
TokenMatches(o, token) ==
  \/ \E field \in TextFields(o) : IContains(field, token)
  \/ \E t \in o.tickets :
       \/ IContains(t.subject, token)
       \/ IContains(t.message, token)
       \/ \E m \in t.messages : IContains(m, token)
  \/ /\ Len(OnlyDigits(token)) > 0
     /\ IContains(o.phone_number, OnlyDigits(token))

\* for token in tokens: orders_qs = orders_qs.filter(token_filter)
RECURSIVE FilterTokens(_, _)
FilterTokens_AnyToken(rows, tokens) ==
  {o \in rows : \E i \in 1..Len(tokens) : TokenMatches(o, tokens[i])}
FilterTokens(rows, tokens) ==
  IF Len(tokens) = 0 THEN rows
  ELSE FilterTokens({o \in rows : TokenMatches(o, Head(tokens))}, Tail(tokens))

\* orders_qs.filter(Q(id=int(code)) | Q(service_code__icontains=code))
ExactFilter_TokenScan(rows, code) == FilterTokens(rows, <<code>>)
ExactFilter(rows, code) ==
  {o \in rows : o.id = DigitsValue(code) \/ IContains(o.service_code, code)}

\* _apply_service_panel_smart_search
smart_search(rows, query) ==
  LET q == Strip(query)
  IN IF Len(q) = 0 THEN rows
     ELSE IF Len(CodeMatch(q)) > 0 THEN ExactFilter(rows, CodeMatch(q))
     ELSE FilterTokens(rows, Split(q))

\* the rows of the join of an order with its tickets and their messages
\* (LEFT OUTER JOIN: an order without tickets, or a ticket without messages,
\* gives one row with the missing side empty)
NoTicket == [subject |-> <<>>, message |-> <<>>, messages |-> {}]

JoinRows(o) ==
  IF o.tickets = {} THEN {[ticket |-> NoTicket, reply |-> <<>>]}
  ELSE UNION {IF t.messages = {} THEN {[ticket |-> t, reply |-> <<>>]}
              ELSE {[ticket |-> t, reply |-> m] : m \in t.messages} : t \in o.tickets}

\* token_filter evaluated on one row of the join
RowMatches(o, row, token) ==
  \/ \E field \in TextFields(o) : IContains(field, token)
  \/ IContains(row.ticket.subject, token)
  \/ IContains(row.ticket.message, token)
  \/ IContains(row.reply, token)
  \/ /\ Len(OnlyDigits(token)) > 0
     /\ IContains(o.phone_number, OnlyDigits(token))

\* the number of rows the chained filters return for order o: every
\* .filter(token_filter) joins the tickets and messages afresh
RECURSIVE TokenRowCount(_, _)
TokenRowCount(o, tokens) ==
  IF Len(tokens) = 0 THEN 1
  ELSE Cardinality({row \in JoinRows(o) : RowMatches(o, row, Head(tokens))})
       * TokenRowCount(o, Tail(tokens))

\* .distinct()
Distinct_Kept(counts) == counts
Distinct(counts) == [o \in DOMAIN counts |-> IF counts[o] > 0 THEN 1 ELSE 0]

\* _apply_service_panel_smart_search: how many times each order of the
\* input occurs in the returned queryset
search_rows(rows, query) ==
  LET q == Strip(query)
  IN IF Len(q) = 0 THEN [o \in rows |-> 1]
     ELSE IF Len(CodeMatch(q)) > 0
     THEN [o \in rows |-> IF o \in ExactFilter(rows, CodeMatch(q)) THEN 1 ELSE 0]
     ELSE Distinct([o \in rows |-> TokenRowCount(o, Split(q))])

\* an order with no text at all
BlankOrder ==
  [id |-> 0, service_code |-> <<>>, full_name |-> <<>>, email |-> <<>>,
   phone_number |-> <<>>, brand |-> <<>>, model |-> <<>>, serial_number |-> <<>>,
   issue_description |-> <<>>, work_done |-> <<>>, tickets |-> {}]

\* the orders the catalog is drawn from
OrderPool ==
  {[BlankOrder EXCEPT !.id = 1, !.service_code = <<"A", "B", "-", "7", "7">>, !.full_name = <<"A", "n", "n", " ", "L", "e", "e">>],
   [BlankOrder EXCEPT !.id = 2, !.full_name = <<"A", "n", "n", " ", "K", "a", "y">>, !.issue_description = <<"r", "i", "m", " ", "7", "7">>],
   [BlankOrder EXCEPT !.id = 77, !.full_name = <<"B", "o", " ", "L", "e", "e">>, !.phone_number = <<"0", "9", "0", "5", " ", "1", "2">>],
   [BlankOrder EXCEPT !.id = 3, !.full_name = <<"L", "e", "e">>,
      !.tickets = {[subject |-> <<"a", "n", "n">>, message |-> <<>>, messages |-> {<<"b", "7", "7">>, <<"c", "7", "7">>}]}],
   [BlankOrder EXCEPT !.id = 4, !.brand = <<"K", "a", "y">>, !.work_done = <<"a", "n", "n">>,
      !.tickets = {[subject |-> <<>>, message |-> <<"L", "e", "e">>, messages |-> {}]}]}

\* the queries typed into the search box
QueryInputs ==
  {<<"#", "7", "7">>, <<" ", "7", "7", " ">>, <<"#", " ", "7", "7">>, <<"a", "n", "n", " ", "l", "e", "e">>, <<"L", "E", "E", " ", " ", "a", "n", "n">>, <<"a", "n", "n">>, <<"#", "7", "x">>, <<"0", "9", "0", "5", "-", "1", "2">>, <<"k", "a", "y", " ", "7", "7">>}

\* an order exists in the database
AddCatalogOrder(o) ==
  /\ o \notin catalog
  /\ Cardinality(catalog) < MaxCatalog
  /\ catalog' = catalog \cup {o}
  /\ UNCHANGED <<orders, customerEmail, logs, outbox, cacheVersion, cacheStats, now,
                 pc, loaded, req, last, lastGet, gen, broker, delivery, rateCount,
                 clock, lastSearch>>
  /\ UNCHANGED portalVars

\* service_panel GET with q=query
ServicePanelSearch(query) ==
  /\ lastSearch' = [query |-> query, rows |-> catalog,
                    found |-> smart_search(catalog, query),
                    count |-> search_rows(catalog, query)]
  /\ UNCHANGED <<orders, customerEmail, logs, outbox, cacheVersion, cacheStats, now,
                 pc, loaded, req, last, lastGet, gen, broker, delivery, rateCount,
                 clock, catalog>>
  /\ UNCHANGED portalVars

\* -------------------------------------------------------- panel helpers
\* _eta_meta(order, today): label, chip class and row warning of the promised
\* date; dates are day numbers, the label is named by its wording
eta_meta_WarnOnTime(order, today) ==
  LET promised == order.promised_date
  IN IF promised = Null THEN [label |-> "Bez terminu", chip |-> "chip-gray", warn |-> FALSE]
     ELSE IF order.completed_at # Null
     THEN [label |-> "date", chip |-> "chip-gray", warn |-> FALSE]
     ELSE IF today > promised THEN [label |-> "Meska", chip |-> "chip-orange", warn |-> TRUE]
     ELSE IF promised - today <= 2 THEN [label |-> "Dnes", chip |-> "chip-blue", warn |-> TRUE]
     ELSE [label |-> "date", chip |-> "chip-gray", warn |-> FALSE]
eta_meta_OverdueFirst(order, today) ==
  LET promised == order.promised_date
  IN IF promised = Null THEN [label |-> "Bez terminu", chip |-> "chip-gray", warn |-> FALSE]
     ELSE IF today > promised THEN [label |-> "Meska", chip |-> "chip-orange", warn |-> TRUE]
     ELSE IF order.completed_at # Null
     THEN [label |-> "date", chip |-> "chip-gray", warn |-> FALSE]
     ELSE IF today = promised THEN [label |-> "Dnes", chip |-> "chip-blue", warn |-> TRUE]
     ELSE IF promised - today = 1
     THEN [label |-> "Zajtra", chip |-> "chip-blue", warn |-> TRUE]
     ELSE IF promised - today <= 2
     THEN [label |-> "On time", chip |-> "chip-blue", warn |-> FALSE]
     ELSE [label |-> "date", chip |-> "chip-gray", warn |-> FALSE]
eta_meta(order, today) ==
  LET promised == order.promised_date
      delta == promised - today
  IN IF promised = Null THEN [label |-> "Bez terminu", chip |-> "chip-gray", warn |-> FALSE]
     ELSE IF order.completed_at # Null
     THEN [label |-> "date", chip |-> "chip-gray", warn |-> FALSE]
     ELSE IF today > promised THEN [label |-> "Meska", chip |-> "chip-orange", warn |-> TRUE]
     ELSE IF today = promised THEN [label |-> "Dnes", chip |-> "chip-blue", warn |-> TRUE]
     ELSE IF delta = 1 THEN [label |-> "Zajtra", chip |-> "chip-blue", warn |-> TRUE]
     ELSE IF delta <= 2 THEN [label |-> "On time", chip |-> "chip-blue", warn |-> FALSE]
     ELSE [label |-> "date", chip |-> "chip-gray", warn |-> FALSE]

\* service_panel GET: _eta_meta(o, today) for an order of the page
EtaMeta(promised_date, completed_at, today) ==
  /\ lastCall' = [fn |-> "eta_meta", promised_date |-> promised_date,
                  completed_at |-> completed_at, today |-> today,
                  result |-> eta_meta([promised_date |-> promised_date,
                                       completed_at |-> completed_at], today)]
  /\ UNCHANGED <<orders, customerEmail, logs, outbox, cacheVersion, cacheStats, now,
                 pc, loaded, req, last, lastGet, gen, broker, delivery, rateCount,
                 clock, catalog, lastSearch, tickets, profiles, bikes, users, passwordRate, rateStoredAt>>

\* seconds of a day: total_seconds() / 86400.0
SecondsPerDay == 86400

\* round(x, 1) of the quotient num / den, in tenths: to the nearest tenth,
\* a tie to the even one
RoundTenths(num, den) ==
  LET q == (10 * num) \div den
      r == (10 * num) % den
  IN IF 2 * r < den THEN q
     ELSE IF 2 * r > den THEN q + 1
     ELSE IF q % 2 = 0 THEN q ELSE q + 1

RECURSIVE SumSeq(_)
SumSeq(s) == IF Len(s) = 0 THEN 0 ELSE Head(s) + SumSeq(Tail(s))

\* the rows whose duration enters the average: completed_at and created_at
\* set and completed_at >= created_at
Eligible_Any(row) == row.completed_at # Null
Eligible(row) ==
  /\ row.completed_at # Null
  /\ row.created_at # Null
  /\ row.completed_at >= row.created_at

\* get_staff_dashboard_counts: avg_repair_days, in tenths of a day, over the
\* timestamps (in seconds) of the orders; the slice [:200] keeps every row
\* of a table of at most MaxRows orders
avg_repair_days(rows) ==
  LET recent_completed == SelectSeq(rows, LAMBDA row : row.completed_at # Null)
      eligible == SelectSeq(recent_completed, Eligible)
      durations == [i \in 1..Len(eligible) |->
                      eligible[i].completed_at - eligible[i].created_at]
  IN IF Len(durations) > 0
     THEN RoundTenths(SumSeq(durations), SecondsPerDay * Len(durations))
     ELSE 0

\* get_staff_dashboard_counts on a miss, for the orders `rows`
AvgRepairDays(rows) ==
  /\ lastCall' = [fn |-> "avg_repair_days", rows |-> rows,
                  result |-> avg_repair_days(rows)]
  /\ UNCHANGED <<orders, customerEmail, logs, outbox, cacheVersion, cacheStats, now,
                 pc, loaded, req, last, lastGet, gen, broker, delivery, rateCount,
                 clock, catalog, lastSearch, tickets, profiles, bikes, users, passwordRate, rateStoredAt>>

\* ---------------------------------------------------------------- loyalty
\* Decimal.to_integral_value(rounding=ROUND_DOWN) of num / den, den > 0:
\* the quotient without its fraction, that is rounded towards zero
ROUND_DOWN(num, den) == IF num >= 0 THEN num \div den ELSE 0 - ((0 - num) \div den)

\* _loyalty_stats_for_profile, for the orders `rows` on the bikes of the
\* profile; the prices and the total are in cents
loyalty_stats_for_profile(rows) ==
  LET counted == SelectSeq(rows, LAMBDA row : row.completed_at # Null)
      total_spent == SumSeq([i \in 1..Len(counted) |-> counted[i].price])
      points == ROUND_DOWN(total_spent, 200)
      discount_eur == points \div 10
      remainder == points % 10
      points_to_next == IF remainder = 0 THEN 0 ELSE 10 - remainder
  IN [loyalty_total_spent |-> total_spent, loyalty_points |-> points,
      loyalty_discount_eur |-> discount_eur,
      loyalty_points_to_next_eur |-> points_to_next]

\* customer_home: the loyalty statistics of a profile with the orders `rows`
LoyaltyStatsForProfile(rows) ==
  /\ lastCall' = [fn |-> "_loyalty_stats_for_profile", rows |-> rows,
                  result |-> loyalty_stats_for_profile(rows)]
  /\ UNCHANGED <<orders, customerEmail, logs, outbox, cacheVersion, cacheStats, now,
                 pc, loaded, req, last, lastGet, gen, broker, delivery, rateCount,
                 clock, catalog, lastSearch, tickets, profiles, bikes, users,
                 passwordRate, rateStoredAt>>

\* ---------------------------------------------------------------- tickets
TicketStatus == {"OPEN", "WAITING_ADMIN", "WAITING_CUSTOMER", "CLOSED"}

\* _touch(ticket): updated_at = timezone.now(), saved alone
Touch_Skipped(ticket, t) == ticket
Touch(ticket, t) == [ticket EXCEPT !.updated_at = t]

\* ticket.status = status; ticket.save(update_fields=["status"]): the
\* auto_now column updated_at is not among the fields and keeps its value
SaveStatus(ticket, status) == [ticket EXCEPT !.status = status]

\* the status the reply views store with a message of the given role
StatusAfterMessage_AlwaysAdmin(role) == "WAITING_ADMIN"
StatusAfterMessage(role) ==
  IF role = "CUSTOMER" THEN "WAITING_ADMIN" ELSE "WAITING_CUSTOMER"

\* customer_ticket_detail POST: the reply is refused on a closed ticket and
\* when the message is empty
ReplyRefused_EmptyOnly(ticket, has_text) == ~has_text
ReplyRefused(ticket, has_text) == ticket.status = "CLOSED" \/ ~has_text

\* TicketMessage.objects.create(ticket=ticket, role=role, ...)
\* author_user is 0 when the request's user is not one of `users`
AddMessageBy(ticket, role, author_user) ==
  [ticket EXCEPT !.messages = Append(@, role), !.authors = Append(@, author_user)]
AddMessage(ticket, role) == AddMessageBy(ticket, role, 0)

\* invalidate_dashboard_cache() called `times` times by a handler that runs
\* with no other request in between: add-or-incr, each time
InvalidateTimes(times) ==
  /\ cacheVersion' = IF times = 0 THEN cacheVersion
                     ELSE IF times = 1 THEN IncrOrReset(cacheVersion)
                     ELSE IncrOrReset(IncrOrReset(cacheVersion))
  /\ gen' = gen + times

\* what a ticket operation leaves alone
TicketFrame ==
  UNCHANGED <<orders, customerEmail, logs, outbox, cacheStats, pc, loaded, req, last,
              lastGet, broker, delivery, rateCount, clock, catalog, lastSearch,
              profiles, bikes, users, passwordRate, rateStoredAt>>

\* the record of a ticket operation at time t: whether it appended a message
\* and whether it wrote the status
TicketCall(fn, ticket, t, appended, status_saved) ==
  [fn |-> fn, ticket |-> ticket, at |-> t, appended |-> appended,
   status_saved |-> status_saved]

\* customer_ticket_create POST on an order of the customer
CustomerTicketCreate(o, has_text) ==
  /\ o \in 1..Len(orders)
  /\ Len(tickets) < MaxTickets
  /\ now < MaxTicketTime
  /\ now' = now + 1
  /\ LET created == [order |-> o, status |-> StatusAfterMessage("CUSTOMER"),
                     created_at |-> now',
                     updated_at |-> now', messages |-> <<>>, authors |-> <<>>]
         touched == Touch(created, now')
         final == IF has_text THEN Touch(AddMessage(touched, "CUSTOMER"), now')
                  ELSE touched
     IN /\ tickets' = Append(tickets, final)
        /\ lastCall' = TicketCall("customer_ticket_create", Len(tickets) + 1, now',
                                  has_text, TRUE) @@ [has_text |-> has_text]
  /\ InvalidateTimes(1)
  /\ TicketFrame

\* customer_ticket_detail POST: a reply of the customer
CustomerTicketReply(i, has_text) ==
  /\ i \in 1..Len(tickets)
  /\ now < MaxTicketTime
  /\ now' = now + 1
  /\ IF ReplyRefused(tickets[i], has_text)
     THEN /\ lastCall' = TicketCall("customer_ticket_detail", i, now', FALSE, FALSE)
                         @@ [has_text |-> has_text]
          /\ InvalidateTimes(0)
          /\ UNCHANGED tickets
     ELSE /\ tickets' = [tickets EXCEPT ![i] =
                           Touch(SaveStatus(AddMessage(@, "CUSTOMER"),
                                            StatusAfterMessage("CUSTOMER")), now')]
          /\ lastCall' = TicketCall("customer_ticket_detail", i, now', TRUE, TRUE)
                         @@ [has_text |-> has_text]
          /\ InvalidateTimes(1)
  /\ TicketFrame

\* admin_ticket_detail POST: close, status change and reply of the staff
AdminTicketDetail(i, close, new_status, has_text) ==
  /\ i \in 1..Len(tickets)
  /\ now < MaxTicketTime
  /\ now' = now + 1
  /\ IF close
     THEN /\ tickets' = [tickets EXCEPT ![i] = Touch(SaveStatus(@, "CLOSED"), now')]
          /\ lastCall' = TicketCall("admin_ticket_detail", i, now', FALSE, TRUE)
                         @@ [close |-> TRUE, new_status |-> new_status,
                             has_text |-> has_text]
          /\ InvalidateTimes(1)
     ELSE LET valid == new_status \in TicketStatus
              staged == IF valid THEN Touch(SaveStatus(tickets[i], new_status), now')
                        ELSE tickets[i]
              replies == staged.status # "CLOSED" /\ has_text
              final == IF replies
                       THEN Touch(SaveStatus(AddMessage(staged, "ADMIN"),
                                             StatusAfterMessage("ADMIN")), now')
                       ELSE staged
          IN /\ tickets' = [tickets EXCEPT ![i] = final]
             /\ lastCall' = TicketCall("admin_ticket_detail", i, now', replies,
                                       valid \/ replies)
                            @@ [close |-> FALSE, new_status |-> new_status,
                                has_text |-> has_text]
             /\ InvalidateTimes((IF valid THEN 1 ELSE 0) + (IF replies THEN 1 ELSE 0))
  /\ TicketFrame

\* TicketAdmin change form: the form saves the ticket with every column
\* (auto_now stamps updated_at), then save_formset stores the new inline
\* messages and, if there are any, sets WAITING_CUSTOMER and updated_at
AdminTicketChange(i, new_status, has_inline) ==
  /\ i \in 1..Len(tickets)
  /\ now < MaxTicketTime
  /\ now' = now + 1
  /\ LET saved == [tickets[i] EXCEPT !.status = new_status, !.updated_at = now']
         final == IF has_inline
                  THEN [AddMessage(saved, "ADMIN") EXCEPT !.status = "WAITING_CUSTOMER",
                                                          !.updated_at = now']
                  ELSE saved
     IN /\ tickets' = [tickets EXCEPT ![i] = final]
        /\ lastCall' = TicketCall("TicketAdmin", i, now', has_inline, TRUE)
  /\ InvalidateTimes(0)
  /\ TicketFrame

\* TicketMessageAdmin add form: the message is stored, its ticket is not
\* written
AdminMessageAdd(i, role) ==
  /\ i \in 1..Len(tickets)
  /\ now < MaxTicketTime
  /\ now' = now + 1
  /\ tickets' = [tickets EXCEPT ![i] = AddMessage(@, role)]
  /\ lastCall' = TicketCall("TicketMessageAdmin", i, now', TRUE, FALSE)
  /\ InvalidateTimes(0)
  /\ TicketFrame

\* -------------------------------------------------------------- audit log
LogKinds == {"SMS", "EMAIL_INVITE", "EMAIL_PROTOCOL", "EMAIL_DONE"}

\* what an operation of the admin site on the log table leaves alone
LogFrame ==
  UNCHANGED <<orders, customerEmail, outbox, cacheVersion, cacheStats, now, pc, loaded,
              req, last, lastGet, gen, broker, delivery, rateCount, clock, catalog,
              lastSearch, tickets, profiles, bikes, users, passwordRate, rateStoredAt>>

\* ServiceOrderLogAdmin change form: every column but created_at is editable
AdminLogChange(i, kind) ==
  /\ i \in 1..Len(logs)
  /\ logs' = [logs EXCEPT ![i].kind = kind]
  /\ lastCall' = [fn |-> "ServiceOrderLogAdmin.change", log |-> i]
  /\ LogFrame

\* ServiceOrderLogAdmin delete view
AdminLogDelete(i) ==
  /\ i \in 1..Len(logs)
  /\ logs' = [j \in 1..(Len(logs) - 1) |-> IF j < i THEN logs[j] ELSE logs[j + 1]]
  /\ lastCall' = [fn |-> "ServiceOrderLogAdmin.delete", log |-> i]
  /\ LogFrame

\* -------------------------------------------------------------- customers
\* str.isdigit() of a posted id
IsDigit(s) == Len(s) > 0 /\ \A i \in 1..Len(s) : s[i] \in Digits

\* queryset.first(): the row of the lowest primary key, 0 for None
First(ids) == IF ids = {} THEN 0 ELSE CHOOSE i \in ids : \A j \in ids : i <= j

\* the profile create_service_order reuses: filter(email__iexact=new_email)
\* .first(), then, if there is none and a phone was posted,
\* filter(phone_number=new_phone).first()
FindProfile_CaseSensitive(tbl, new_email, new_phone) ==
  LET by_email == First({i \in 1..Len(tbl) : tbl[i].email = new_email})
  IN IF by_email = 0 /\ Len(new_phone) > 0
     THEN First({i \in 1..Len(tbl) : tbl[i].phone_number = new_phone})
     ELSE by_email
FindProfile(tbl, new_email, new_phone) ==
  LET by_email == First({i \in 1..Len(tbl) : Lower(tbl[i].email) = Lower(new_email)})
  IN IF by_email = 0 /\ Len(new_phone) > 0
     THEN First({i \in 1..Len(tbl) : tbl[i].phone_number = new_phone})
     ELSE by_email

\* the fields of a reused profile: only the empty ones are filled
FillEmpty(profile, new_full_name, new_email, new_phone) ==
  [full_name |-> IF Len(profile.full_name) = 0 THEN new_full_name ELSE profile.full_name,
   phone_number |-> IF Len(new_phone) > 0 /\ Len(profile.phone_number) = 0
                    THEN new_phone ELSE profile.phone_number,
   email |-> IF Len(profile.email) = 0 THEN new_email ELSE profile.email,
   user |-> profile.user]

\* what an operation on the customers leaves alone
CustomerFrame ==
  UNCHANGED <<logs, outbox, cacheStats, pc, loaded, req, last, lastGet, broker,
              delivery, rateCount, clock, catalog, lastSearch, tickets, users, passwordRate, rateStoredAt>>

\* CustomerProfileAdmin add form: a profile with the posted columns
AdminAddProfile(profile) ==
  /\ Len(profiles) < MaxProfiles
  /\ profiles' = Append(profiles, profile)
  /\ lastCall' = [fn |-> "CustomerProfileAdmin"]
  /\ UNCHANGED <<orders, customerEmail, cacheVersion, gen, now, bikes>>
  /\ CustomerFrame

\* create_service_order POST without bike_id: the customer and the bike are
\* posted with the order
CreateServiceOrderNewCustomer(form) ==
  LET new_full_name == Strip(form.new_full_name)
      new_email == Lower(Strip(form.new_email))
      new_phone == Strip(form.new_phone_number)
      new_brand == Strip(form.new_brand)
      edit_customer_id == Strip(form.edit_customer_id)
      edited == IF IsDigit(edit_customer_id)
                   /\ DigitsValue(edit_customer_id) \in 1..Len(profiles)
                THEN DigitsValue(edit_customer_id) ELSE 0
      found == IF edited # 0 THEN edited ELSE FindProfile(profiles, new_email, new_phone)
      overwritten == [full_name |-> new_full_name, email |-> new_email,
                      phone_number |-> new_phone,
                      user |-> IF edited # 0 THEN profiles[edited].user ELSE 0]
      p == IF found = 0 THEN Len(profiles) + 1 ELSE found
      call == [fn |-> "create_service_order", form |-> form, before |-> profiles,
               new_email |-> new_email, new_phone |-> new_phone,
               ordersBefore |-> Len(orders), bikesBefore |-> Len(bikes)]
  IN IF Len(new_full_name) = 0 \/ Len(new_email) = 0 \/ Len(new_brand) = 0
     THEN /\ lastCall' = [call EXCEPT !.fn = "create_service_order_error"]
          /\ UNCHANGED <<orders, customerEmail, cacheVersion, gen, now, profiles, bikes>>
          /\ CustomerFrame
     ELSE /\ Len(orders) < MaxOrders
          /\ now < MaxTime
          /\ now' = now + 1
          /\ profiles' =
               IF found = 0 THEN Append(profiles, overwritten)
               ELSE [profiles EXCEPT ![found] =
                       FillEmpty(IF edited # 0 THEN overwritten ELSE @,
                                 new_full_name, new_email, new_phone)]
          /\ bikes' = Append(bikes, [customer |-> p, brand |-> new_brand,
                                     orders |-> {Len(orders) + 1}])
          /\ orders' = Append(orders, NewOrder("squeaky brake"))
          /\ customerEmail' = Append(customerEmail, TRUE)
          /\ InvalidateTimes(1)
          /\ lastCall' = [call EXCEPT !.fn = "create_service_order"] @@
                         [edited |-> edited, profile |-> p]
          /\ CustomerFrame

\* -------------------------------------------------------------- passwords
\* the password column of a user made with password=None: set_unusable_password
Unusable == <<"!">>

\* is_rate_limited(scope="set_password", ..., limit=6, ...)
SetPasswordLimit == 6

\* MinimumLengthValidator without options
MinimumLength == 8

\* User.objects.create_user(username, email, password=None, ...)
create_user_DefaultPassword(username, email) ==
  [username |-> username, email |-> email, password |-> username, has_set |-> FALSE]
create_user(username, email) ==
  [username |-> username, email |-> email, password |-> Unusable, has_set |-> FALSE]

\* user.check_password(raw): never true of an unusable password
check_password(user, raw) == user.password # Unusable /\ user.password = raw

\* django.contrib.auth.authenticate(username, password): the id of the user
\* of that username whose password it is, 0 for None
authenticate(tbl, username, password) ==
  First({u \in 1..Len(tbl) : tbl[u].username = username
                             /\ check_password(tbl[u], password)})

\* default_token_generator: the token is a hash over the user's id and
\* password column, so it names the user and the password it was made for
make_token(uid, user) == [uid |-> uid, password |-> user.password]
check_token(uid, user, token) == token = make_token(uid, user)

\* validate_password under AUTH_PASSWORD_VALIDATORS: at least MinimumLength
\* characters, not entirely numeric, not a common password; no password of
\* the inputs resembles the user's attributes
CommonPasswords == {<<"p", "a", "s", "s", "w", "o", "r", "d">>}
validate_password(password) ==
  /\ Len(password) >= MinimumLength
  /\ ~IsDigit(password)
  /\ password \notin CommonPasswords

\* what an operation on the users leaves alone
UserFrame ==
  UNCHANGED <<orders, customerEmail, logs, outbox, cacheVersion, cacheStats, now, pc,
              loaded, req, last, lastGet, gen, broker, delivery, rateCount, clock,
              catalog, lastSearch, tickets, profiles, bikes, rateStoredAt>>

\* the users after _get_or_create_customer_user(email, ...)
WithCustomerUser(tbl, email) ==
  LET username == Lower(Strip(email))
      user == First({u \in 1..Len(tbl) : Lower(tbl[u].username) = Lower(username)})
  IN IF user = 0 THEN Append(tbl, create_user(username, username))
     ELSE [tbl EXCEPT ![user].email = IF Len(@) = 0 THEN username ELSE @]

\* _get_or_create_customer_user(email, full_name)
GetOrCreateCustomerUser(email) ==
  LET username == Lower(Strip(email))
      user == First({u \in 1..Len(users) : Lower(users[u].username) = Lower(username)})
  IN /\ user = 0 => Len(users) < MaxUsers
     /\ users' = WithCustomerUser(users, email)
     /\ lastCall' = [fn |-> "_get_or_create_customer_user", created |-> user = 0,
                     user |-> IF user = 0 THEN Len(users) + 1 ELSE user]
     /\ UNCHANGED passwordRate
     /\ UserFrame

\* customer_set_password POST on the link of user id uid and token
CustomerSetPassword(uid, token, new_password_raw, new_password2_raw) ==
  LET limited == passwordRate # Absent /\ OverLimit(passwordRate + 1, SetPasswordLimit)
      counted == IF passwordRate = Absent THEN 1 ELSE passwordRate + 1
      new_password == Strip(new_password_raw)
      new_password2 == Strip(new_password2_raw)
      call == [fn |-> "customer_set_password", uid |-> uid, token |-> token,
               new_password |-> new_password, new_password2 |-> new_password2,
               before |-> users]
  IN /\ passwordRate = Absent \/ passwordRate < MaxAttempts
     /\ IF limited
        THEN /\ lastCall' = call @@ [result |-> "rate_limited"]
             /\ passwordRate' = counted
             /\ UNCHANGED users
        ELSE IF uid \notin 1..Len(users) \/ ~check_token(uid, users[uid], token)
        THEN /\ lastCall' = call @@ [result |-> "bad_request"]
             /\ passwordRate' = counted
             /\ UNCHANGED users
        ELSE IF new_password # new_password2 \/ ~validate_password(new_password)
        THEN /\ lastCall' = call @@ [result |-> "error"]
             /\ passwordRate' = counted
             /\ UNCHANGED users
        ELSE /\ lastCall' = call @@ [result |-> "success"]
             /\ passwordRate' = Absent
             /\ users' = [users EXCEPT ![uid].password = new_password,
                                       ![uid].has_set = TRUE]
     /\ UserFrame

\* the key of the set_password rate limit reaches the end of its window
ExpirePasswordRateKey ==
  /\ passwordRate # Absent
  /\ passwordRate' = Absent
  /\ UNCHANGED <<users, lastCall>>
  /\ UserFrame

\* authenticate(username=..., password=...) as the login form calls it
Authenticate(username, password) ==
  /\ lastCall' = [fn |-> "authenticate", username |-> username, password |-> password,
                  user |-> authenticate(users, username, password)]
  /\ UNCHANGED <<users, passwordRate>>
  /\ UserFrame

\* ---------------------------------------------------------- missing orders
\* ServiceOrder.objects.filter(pk=int(order_id_raw)).first() behind
\* order_id_raw.isdigit(): the id of the order found, 0 for none
LookupOrder(tbl, order_id_raw) ==
  IF IsDigit(order_id_raw) /\ DigitsValue(order_id_raw) \in 1..Len(tbl)
  THEN DigitsValue(order_id_raw) ELSE 0

\* service_panel POST, row_update_status or row_update_eta, with an order id
\* that is not numeric or names no order: the error message and the redirect
\* back to the panel
PanelRowMissing(w, op, order_id_raw) ==
  /\ pc[w] = "idle"
  /\ op \in {"row_update_status", "row_update_eta"}
  /\ LookupOrder(orders, Strip(order_id_raw)) = 0
  /\ Respond(w, [NoRequest EXCEPT !.op = op], "error")
  /\ UNCHANGED <<orders, customerEmail, cacheVersion, cacheStats, now, lastGet>>
  /\ UNCHANGED envVars

\* service_order_admin_detail with an id that names no order:
\* get_object_or_404 raises Http404
DetailMissing(w, order_id) ==
  /\ pc[w] = "idle"
  /\ order_id \notin 1..Len(orders)
  /\ Respond(w, [NoRequest EXCEPT !.op = "detail_save"], "not_found")
  /\ UNCHANGED <<orders, customerEmail, cacheVersion, cacheStats, now, lastGet>>
  /\ UNCHANGED envVars

\* ------------------------------------------------------- customer creation
\* create_customer_with_bike and quick_create_customer_with_bike (fn names
\* the view; the two bodies are the same): the profile is looked up by email
\* without case, the user by username; a new profile is created with the
\* user, an existing one takes the user only when it has none; the unique
\* index of the one-to-one column user refuses a user another profile has;
\* the credentials are mailed when the user is new
CreateCustomerWithBike(fn, form) ==
  LET full_name == Strip(form.full_name)
      email == Lower(Strip(form.email))
      phone_number == Strip(form.phone_number)
      brand == Strip(form.brand)
      profile == First({i \in 1..Len(profiles) : Lower(profiles[i].email) = Lower(email)})
      usersAfter == WithCustomerUser(users, email)
      user == First({u \in 1..Len(usersAfter) :
                       Lower(usersAfter[u].username) = Lower(email)})
      user_created == Len(usersAfter) > Len(users)
      links == profile = 0 \/ profiles[profile].user = 0
      integrity_error == links /\ \E i \in 1..Len(profiles) : profiles[i].user = user
      p == IF profile = 0 THEN Len(profiles) + 1 ELSE profile
      raised == HandoffRaises(user_created, broker)
      call == [fn |-> fn, form |-> form, before |-> profiles, email |-> email]
      rest == <<orders, customerEmail, logs, cacheVersion, cacheStats, now, pc, loaded,
                req, last, lastGet, gen, broker, delivery, rateCount, clock, catalog,
                lastSearch, tickets, passwordRate, rateStoredAt>>
  IN IF Len(full_name) = 0 \/ Len(email) = 0 \/ Len(brand) = 0
     THEN /\ lastCall' = call @@ [result |-> "error"]
          /\ UNCHANGED <<profiles, bikes, users, outbox>>
          /\ UNCHANGED rest
     ELSE /\ Len(usersAfter) <= MaxUsers
          /\ users' = usersAfter
          /\ IF integrity_error
             THEN /\ lastCall' = call @@ [result |-> "server_error"]
                  /\ UNCHANGED <<profiles, bikes, outbox>>
             ELSE /\ p <= MaxProfiles
                  /\ Len(bikes) < MaxBikes
                  /\ profiles' =
                       IF profile = 0
                       THEN Append(profiles, [user |-> user, full_name |-> full_name,
                                              email |-> email,
                                              phone_number |-> phone_number])
                       ELSE [profiles EXCEPT
                               ![profile].user = IF @ = 0 THEN user ELSE @,
                               ![profile].full_name = full_name,
                               ![profile].phone_number = phone_number]
                  /\ bikes' = Append(bikes, [customer |-> p, brand |-> brand,
                                             orders |-> {}])
                  /\ outbox' = IF user_created /\ ~raised
                               THEN Append(outbox, [order |-> 0, kind |-> "credentials"])
                               ELSE outbox
                  /\ lastCall' = call @@ [result |-> IF raised THEN "server_error"
                                                     ELSE "success",
                                          profile |-> p]
          /\ UNCHANGED rest

\* ---------------------------------------------------------------- dispatch
\* _send_sms_safely: the job is handed over when phone and text are not empty
SmsAccepted_PhoneOnly(phone, text) == Len(Strip(phone)) > 0
SmsAccepted(phone, text) == Len(Strip(phone)) > 0 /\ Len(Strip(text)) > 0

\* _send_email_with_attachment_safely: the job is handed over when there is
\* a recipient and the document is not empty
AttachmentAccepted(has_to, has_pdf) == has_to /\ has_pdf

\* the end of a request of the detail page that hands a job of kind job to
\* the broker when `handed` and then appends the log entry of kind log: .delay
\* raises when the broker is down and nothing catches it
Dispatch(w, r, handed, job, log) ==
  LET raised == HandoffRaises(handed, broker)
      accepted == handed /\ ~raised
  IN /\ accepted => Len(outbox) < MaxJobs
     /\ outbox' = IF accepted THEN Append(outbox, [order |-> r.order, kind |-> job])
                  ELSE outbox
     /\ logs' = IF accepted THEN Append(logs, [order |-> r.order, kind |-> log])
                ELSE logs
     /\ pc' = [pc EXCEPT ![w] = "idle"]
     /\ loaded' = [loaded EXCEPT ![w] = NoInstance]
     /\ req' = [req EXCEPT ![w] = NoRequest]
     /\ last' = [request |-> r,
                 result |-> IF raised THEN "server_error"
                            ELSE IF handed THEN "success" ELSE "error"]
     /\ UNCHANGED <<orders, customerEmail, cacheVersion, cacheStats, now, lastGet, gen>>

\* service_order_admin_detail POST, action send_sms
SendSms(w, phone, text) ==
  /\ pc[w] = "loaded"
  /\ Dispatch(w, [req[w] EXCEPT !.op = "send_sms"] @@ [phone |-> phone, text |-> text],
              SmsAccepted(phone, text), "sms", "SMS")
  /\ UNCHANGED envVars

\* service_order_admin_detail POST, action send_protocol_email; the document
\* build_service_protocol_pdf returns is never empty
SendProtocolEmail(w) ==
  /\ pc[w] = "loaded"
  /\ Dispatch(w, [req[w] EXCEPT !.op = "send_protocol_email"],
              customerEmail[req[w].order]
              /\ AttachmentAccepted(customerEmail[req[w].order], TRUE),
              "protocol", "EMAIL_PROTOCOL")
  /\ UNCHANGED envVars

\* the bike of order o, 0 when the order was made without one
BikeOfOrder(o) == First({b \in 1..Len(bikes) : o \in bikes[b].orders})

\* order.bike.customer, 0 when the order was made without a bike
CustomerOfOrder(o) == IF BikeOfOrder(o) = 0 THEN 0 ELSE bikes[BikeOfOrder(o)].customer

\* service_order_admin_detail POST, action invite_customer_portal, for an
\* order whose customer has the stored email `email`: the user is looked up
\* or created and a profile without user gets it, before the invitation is
\* handed to the broker
InviteCustomerPortal(w, email) ==
  /\ pc[w] = "loaded"
  /\ LET profile == CustomerOfOrder(req[w].order)
         handed == Len(Strip(email)) > 0
         usersAfter == WithCustomerUser(users, email)
         user == First({u \in 1..Len(usersAfter) :
                          Lower(usersAfter[u].username) = Lower(Strip(email))})
     IN /\ IF profile = 0 THEN customerEmail[req[w].order] <=> handed
           ELSE email = profiles[profile].email
        /\ users' = IF handed THEN usersAfter ELSE users
        /\ Len(users') <= MaxUsers
        /\ profiles' = IF handed /\ profile # 0 /\ profiles[profile].user = 0
                       THEN [profiles EXCEPT ![profile].user = user]
                       ELSE profiles
        /\ Dispatch(w, [req[w] EXCEPT !.op = "invite_customer_portal"]
                        @@ [email |-> email],
                    handed, "invite", "EMAIL_INVITE")
  /\ UNCHANGED <<broker, delivery, rateCount, clock, catalog, lastSearch, lastCall,
                 tickets, bikes, passwordRate, rateStoredAt>>

\* ---------------------------------------------------------- customer portal
\* _get_profile_for_user: user.customer_profile, and for a user without one
\* the first profile whose email is the user's without case; 0 for None
get_profile_for_user(u) ==
  LET customer_profile == First({p \in 1..Len(profiles) : profiles[p].user = u})
      email == Lower(Strip(users[u].email))
  IN IF customer_profile # 0 THEN customer_profile
     ELSE IF Len(email) = 0 THEN 0
     ELSE First({p \in 1..Len(profiles) : Lower(profiles[p].email) = Lower(email)})

\* the profiles after _get_profile_for_user: a profile found by email that
\* has no user is given this one
ProfilesAfterLookup(u) ==
  LET profile == get_profile_for_user(u)
  IN IF profile # 0 /\ profiles[profile].user = 0
     THEN [profiles EXCEPT ![profile].user = u]
     ELSE profiles

\* @login_required: the request comes with the session of a user, who has
\* authenticated with a password before
LoggedIn(u) == u \in 1..Len(users) /\ users[u].has_set

\* what a ticket request of a customer leaves alone
PortalFrame ==
  UNCHANGED <<orders, customerEmail, logs, outbox, cacheStats, pc, loaded, req, last,
              lastGet, broker, delivery, rateCount, clock, catalog, lastSearch,
              bikes, users, passwordRate, rateStoredAt>>

\* the record of a ticket request of user u addressed to `target`
PortalCall(fn, u, target, result, ticket, appended, has_text) ==
  TicketCall(fn, ticket, IF result = "success" THEN now + 1 ELSE now, appended, appended)
  @@ [has_text |-> has_text, user |-> u, target |-> target, result |-> result,
      profile |-> get_profile_for_user(u)]

\* customer_ticket_create POST of user u for the order order_id
CustomerTicketCreatePost(u, order_id, has_text) ==
  LET profile == get_profile_for_user(u)
      found == /\ order_id \in 1..Len(orders)
               /\ CustomerOfOrder(order_id) = profile
      created == [order |-> order_id, status |-> StatusAfterMessage("CUSTOMER"),
                  created_at |-> now', updated_at |-> now', messages |-> <<>>,
                  authors |-> <<>>]
      touched == Touch(created, now')
      final == IF has_text THEN Touch(AddMessageBy(touched, "CUSTOMER", u), now')
               ELSE touched
  IN /\ LoggedIn(u)
     /\ profiles' = ProfilesAfterLookup(u)
     /\ IF profile = 0 \/ ~found
        THEN /\ UNCHANGED now
             /\ lastCall' = PortalCall("customer_ticket_create", u, order_id,
                                       IF profile = 0 THEN "no_profile" ELSE "not_found",
                                       0, FALSE, has_text)
             /\ InvalidateTimes(0)
             /\ UNCHANGED tickets
        ELSE /\ Len(tickets) < MaxTickets
             /\ now < MaxTicketTime
             /\ now' = now + 1
             /\ tickets' = Append(tickets, final)
             /\ lastCall' = PortalCall("customer_ticket_create", u, order_id, "success",
                                       Len(tickets) + 1, has_text, has_text)
             /\ InvalidateTimes(1)
     /\ PortalFrame

\* customer_ticket_detail POST of user u for the ticket ticket_id
CustomerTicketDetailPost(u, ticket_id, has_text) ==
  LET profile == get_profile_for_user(u)
      found == /\ ticket_id \in 1..Len(tickets)
               /\ CustomerOfOrder(tickets[ticket_id].order) = profile
  IN /\ LoggedIn(u)
     /\ profiles' = ProfilesAfterLookup(u)
     /\ IF profile = 0 \/ ~found
        THEN /\ UNCHANGED now
             /\ lastCall' = PortalCall("customer_ticket_detail", u, ticket_id,
                                       IF profile = 0 THEN "no_profile" ELSE "not_found",
                                       0, FALSE, has_text)
             /\ InvalidateTimes(0)
             /\ UNCHANGED tickets
        ELSE IF ReplyRefused(tickets[ticket_id], has_text)
        THEN /\ UNCHANGED now
             /\ lastCall' = PortalCall("customer_ticket_detail", u, ticket_id, "refused",
                                       ticket_id, FALSE, has_text)
             /\ InvalidateTimes(0)
             /\ UNCHANGED tickets
        ELSE /\ now < MaxTicketTime
             /\ now' = now + 1
             /\ tickets' = [tickets EXCEPT ![ticket_id] =
                              Touch(SaveStatus(AddMessageBy(@, "CUSTOMER", u),
                                               StatusAfterMessage("CUSTOMER")), now')]
             /\ lastCall' = PortalCall("customer_ticket_detail", u, ticket_id, "success",
                                       ticket_id, TRUE, has_text)
             /\ InvalidateTimes(1)
     /\ PortalFrame

\* ----------------------------------------------------------------- inputs
StatusInputs == Status \cup {"ARCHIVED"}
PromisedInputs == {"", "2026-11-10", "10.11.2026"}
PackageInputs == {"basic", "full", "brake_setup", "premium"}
PriceInputs == {<<>>, <<"1", "2", ",", "5">>, <<"a", "b", "c">>}
TickSteps == {30}
ChecklistPosts == {EmptyChecklist, [k \in {"brakes", "chain"} |-> IF k = "brakes" THEN "on" ELSE ""]}
DetailForms ==
  [status : {"", "IN_PROGRESS", "DONE"}, price : PriceInputs, cl : ChecklistPosts,
   issue_description : {"squeaky brake"}, work_done : {"pads replaced"},
   promised_date : {"", "2026-11-12"}]

\* ---------------------------------------------------------- specification
\* Spec: the requests are served one at a time (a single worker)
Next ==
  \/ \E o \in 1..MaxOrders : Load(1, o)
  \/ \E email \in BOOLEAN : CreateServiceOrder(1, "squeaky brake", email)
  \/ \E s \in StatusInputs : RowUpdateStatus(1, s)
  \/ \E d \in PromisedInputs : RowUpdateEta(1, d)
  \/ \E k \in PackageInputs : ApplyServicePackage(1, k)
  \/ \E form \in DetailForms : DetailSave(1, form)
  \/ \E s \in Status : AdminSave(1, s)
  \/ InvalidateIncr(1)

Spec == Init /\ [][Next]_vars

\* SpecConc: NumWorkers workers serve requests concurrently
ConcForms ==
  [status : {"", "READY", "DONE"}, price : {<<>>}, cl : {EmptyChecklist},
   issue_description : {"squeaky brake"}, work_done : {"", "pads replaced"},
   promised_date : {""}]

NextConc ==
  \E w \in Workers :
    \/ \E o \in 1..MaxOrders : Load(w, o)
    \/ CreateServiceOrder(w, "squeaky brake", TRUE)
    \/ \E s \in {"IN_PROGRESS", "DONE"} : RowUpdateStatus(w, s)
    \/ RowUpdateEta(w, "2026-11-10")
    \/ ApplyServicePackage(w, "basic")
    \/ \E form \in ConcForms : DetailSave(w, form)
    \/ InvalidateIncr(w)

SpecConc == Init /\ [][NextConc]_vars

\* SpecCache: the dashboard cache under status changes, reads and loss of
\* the version key
NextCache ==
  \/ \E o \in 1..MaxOrders : Load(1, o)
  \/ CreateServiceOrder(1, "squeaky brake", TRUE)
  \/ \E s \in {"IN_PROGRESS", "DONE"} : RowUpdateStatus(1, s)
  \/ InvalidateIncr(1)
  \/ GetStaffDashboardCounts
  \/ EvictVersion

SpecCache == Init /\ [][NextCache]_vars

\* SpecTtl: the dashboard cache over time, with changes that invalidate
\* (status row) and changes that do not (admin site)
NextTtl ==
  \/ \E o \in 1..MaxOrders : Load(1, o)
  \/ CreateServiceOrder(1, "squeaky brake", TRUE)
  \/ RowUpdateStatus(1, "IN_PROGRESS")
  \/ InvalidateIncr(1)
  \/ AdminSave(1, "DONE")
  \/ GetStaffDashboardCounts
  \/ \E v \in 1..(MaxTime + 1) : ExpireSnapshot(v)
  \/ \E seconds \in TickSteps : Tick(seconds)

SpecTtl == Init /\ [][NextTtl]_vars

\* SpecNotify: the detail form and the notification path, with a broker that
\* can be unreachable and a mail server that can refuse
NotifyForms ==
  [status : {"", "IN_PROGRESS", "DONE"}, price : {<<>>}, cl : {EmptyChecklist},
   issue_description : {"squeaky brake"}, work_done : {"pads replaced"},
   promised_date : {""}]

NextNotify ==
  \/ \E o \in 1..MaxOrders : Load(1, o)
  \/ \E email \in BOOLEAN : CreateServiceOrder(1, "squeaky brake", email)
  \/ \E form \in NotifyForms : DetailSave(1, form)
  \/ InvalidateIncr(1)
  \/ BrokerFails
  \/ BrokerRecovers
  \/ \E send_mail_ok \in BOOLEAN : DeliverEmail(send_mail_ok)

SpecNotify == Init /\ [][NextNotify]_vars

\* SpecLogin: concurrent login attempts from one address
NextLogin ==
  \/ \E w \in Workers :
       \/ LoginAdd(w)
       \/ LoginIncr(w)
       \/ \E authenticated \in BOOLEAN : LoginAuth(w, authenticated)
  \/ ExpireRateKey

SpecLogin == Init /\ [][NextLogin]_vars

\* SpecSearch: searches of the service panel over the orders in the database
NextSearch ==
  \/ \E o \in OrderPool : AddCatalogOrder(o)
  \/ \E query \in QueryInputs : ServicePanelSearch(query)

SpecSearch == Init /\ [][NextSearch]_vars

\* SpecHelpers: the helpers of the service panel on every input of the bounds
CreatedStamps == {86400, 172800}
CompletedStamps == {Null, 43200, 172800, 388800}
StampRows == [created_at : CreatedStamps, completed_at : CompletedStamps]

RECURSIVE SeqsUpTo(_, _)
SeqsUpTo(S, n) ==
  IF n = 0 THEN {<<>>}
  ELSE SeqsUpTo(S, n - 1) \cup {Append(q, x) : q \in SeqsUpTo(S, n - 1), x \in S}

NextHelpers ==
  \/ \E promised_date \in 0..MaxDay, completed_at \in {Null, 1}, today \in 1..MaxDay :
       EtaMeta(promised_date, completed_at, today)
  \/ \E rows \in SeqsUpTo(StampRows, MaxRows) : AvgRepairDays(rows)

SpecHelpers == Init /\ [][NextHelpers]_vars

\* SpecTickets: the ticket operations of customers and staff on the tickets
\* of an order
TicketStatusInputs == {"", "OPEN", "CLOSED", "RESOLVED"}

NextTickets ==
  \/ CreateServiceOrder(1, "squeaky brake", TRUE)
  \/ \E o \in 1..MaxOrders, has_text \in BOOLEAN : CustomerTicketCreate(o, has_text)
  \/ \E i \in 1..MaxTickets, has_text \in BOOLEAN : CustomerTicketReply(i, has_text)
  \/ \E i \in 1..MaxTickets, close \in BOOLEAN, new_status \in TicketStatusInputs,
        has_text \in BOOLEAN : AdminTicketDetail(i, close, new_status, has_text)
  \/ \E i \in 1..MaxTickets, new_status \in {"OPEN", "CLOSED"}, has_inline \in BOOLEAN :
       AdminTicketChange(i, new_status, has_inline)
  \/ \E i \in 1..MaxTickets : AdminMessageAdd(i, "ADMIN")

SpecTickets == Init /\ [][NextTickets]_vars

\* SpecAudit: the operations that write the audit log of an order
NextAudit ==
  \/ \E o \in 1..MaxOrders : Load(1, o)
  \/ \E email \in BOOLEAN : CreateServiceOrder(1, "squeaky brake", email)
  \/ \E s \in {"IN_PROGRESS", "DONE"} : RowUpdateStatus(1, s)
  \/ \E new_status \in {"READY", "DONE"} : AdminSave(1, new_status)
  \/ InvalidateIncr(1)
  \/ BrokerFails
  \/ BrokerRecovers
  \/ \E i \in 1..MaxTime, kind \in {"SMS", "EMAIL_DONE"} : AdminLogChange(i, kind)
  \/ \E i \in 1..MaxTime : AdminLogDelete(i)

SpecAudit == Init /\ [][NextAudit]_vars

\* SpecCustomers: orders posted with their customer, over the profiles the
\* admin site has stored
ProfilePool ==
  {[full_name |-> <<"A", "n">>, email |-> <<"A", "@", "b">>, phone_number |-> <<"1", "2">>, user |-> 0],
   [full_name |-> <<>>, email |-> <<"k", "@", "b">>, phone_number |-> <<>>, user |-> 0],
   [full_name |-> <<"L", "e">>, email |-> <<"l", "@", "b">>, phone_number |-> <<"1", "2">>, user |-> 0],
   [full_name |-> <<"Y">>, email |-> <<"y", "@", "b">>, phone_number |-> <<"3">>, user |-> 0]}

CustomerForm(edit_customer_id, new_full_name, new_email, new_phone_number) ==
  [edit_customer_id |-> edit_customer_id, new_full_name |-> new_full_name,
   new_email |-> new_email, new_phone_number |-> new_phone_number, new_brand |-> <<"X">>]

CustomerForms ==
  {CustomerForm(<<>>, <<"B", "o">>, <<"a", "@", "b">>, <<>>),
   CustomerForm(<<>>, <<"B", "o">>, <<"z", "@", "b">>, <<"1", "2">>),
   CustomerForm(<<>>, <<"B", "o">>, <<"K", "@", "b", " ">>, <<"3", "4">>),
   CustomerForm(<<>>, <<" ">>, <<"a", "@", "b">>, <<>>),
   CustomerForm(<<"1">>, <<"B", "o">>, <<"k", "@", "b">>, <<>>),
   CustomerForm(<<>>, <<"B", "o">>, <<"z", "@", "b">>, <<>>),
   CustomerForm(<<>>, <<"B", "o">>, <<"a", "@", "b">>, <<"3">>)}

NextCustomers ==
  \/ \E profile \in ProfilePool : AdminAddProfile(profile)
  \/ \E form \in CustomerForms : CreateServiceOrderNewCustomer(form)

SpecCustomers == Init /\ [][NextCustomers]_vars

\* SpecPassword: invited customers, their set-password links and logins
EmailInputs == {<<"a", "@", "b">>, <<"A", "@", "b", " ">>, <<"k", "@", "b">>}

StrongPass == <<"S", "t", "r", "0", "n", "g", "P", "!">>
NumericPass == <<"1", "2", "3", "4", "5", "6", "7", "8">>
PasswordInputs == {<<"a", "b">>, NumericPass, StrongPass, <<" ">> \o StrongPass}

\* the two password fields of the form: equal, equal up to blanks, different,
\* too short, numeric, common
PasswordPairs ==
  {<<StrongPass, StrongPass>>, <<<<" ">> \o StrongPass, StrongPass>>,
   <<StrongPass, <<"a", "b">>>>, <<<<"a", "b">>, <<"a", "b">>>>,
   <<NumericPass, NumericPass>>,
   <<<<"p", "a", "s", "s", "w", "o", "r", "d">>, <<"p", "a", "s", "s", "w", "o", "r", "d">>>>}

\* the ids of the links: the two users of EmailInputs and a missing one
UidInputs == {1, 2, 3}

TokenInputs ==
  {[uid |-> uid, password |-> password] :
     uid \in {1, 2}, password \in {Unusable, StrongPass}}

NextPassword ==
  \/ \E email \in EmailInputs : GetOrCreateCustomerUser(email)
  \/ \E uid \in UidInputs, token \in TokenInputs, pair \in PasswordPairs :
       CustomerSetPassword(uid, token, pair[1], pair[2])
  \/ ExpirePasswordRateKey
  \/ \E email \in EmailInputs, password \in PasswordInputs \cup {Unusable} :
       Authenticate(Lower(Strip(email)), Strip(password))

SpecPassword == Init /\ [][NextPassword]_vars

\* SpecPanel: the row updates of the service panel, with ids that name an
\* order and ids that name none
OrderIdInputs == {<<"9">>, <<"x">>, <<>>, <<" ", "1">>}

NextPanel ==
  \/ \E o \in 1..MaxOrders : Load(1, o)
  \/ CreateServiceOrder(1, "squeaky brake", TRUE)
  \/ \E s \in StatusInputs : RowUpdateStatus(1, s)
  \/ \E d \in PromisedInputs : RowUpdateEta(1, d)
  \/ InvalidateIncr(1)
  \/ \E op \in {"row_update_status", "row_update_eta"}, order_id_raw \in OrderIdInputs :
       PanelRowMissing(1, op, order_id_raw)
  \/ DetailMissing(1, MaxOrders + 1)

SpecPanel == Init /\ [][NextPanel]_vars

\* SpecRate: concurrent login attempts of one client within and across the
\* windows of the rate limit
NextRate ==
  \/ \E w \in Workers :
       \/ LoginAdd(w)
       \/ LoginIncr(w)
       \/ \E authenticated \in BOOLEAN : LoginAuth(w, authenticated)
  \/ TickWindow(150)

SpecRate == Init /\ [][NextRate]_vars

\* SpecDispatch: the messages the staff sends from the detail page of an
\* order, with the broker up and down
SmsInputs == {<<>>, <<" ">>, <<"0", "9">>}

NextDispatch ==
  \/ \E o \in 1..MaxOrders : Load(1, o)
  \/ \E email \in BOOLEAN : CreateServiceOrder(1, "squeaky brake", email)
  \/ \E phone \in SmsInputs, text \in SmsInputs : SendSms(1, phone, text)
  \/ SendProtocolEmail(1)
  \/ \E email \in {<<>>, <<" ">>, <<"A", "@", "b">>} : InviteCustomerPortal(1, email)
  \/ BrokerFails
  \/ BrokerRecovers

SpecDispatch == Init /\ [][NextDispatch]_vars

\* SpecPackage: service packages applied while another request changes the
\* status of the same order
NextPackage ==
  \E w \in Workers :
    \/ \E o \in 1..MaxOrders : Load(w, o)
    \/ CreateServiceOrder(w, "squeaky brake", TRUE)
    \/ \E s \in {"IN_PROGRESS", "DONE"} : RowUpdateStatus(w, s)
    \/ RowUpdateEta(w, "2026-11-10")
    \/ \E package_key \in {"basic", "premium"} : ApplyServicePackage(w, package_key)
    \/ InvalidateIncr(w)

SpecPackage == Init /\ [][NextPackage]_vars

\* SpecProfiles: the customers made by the staff with the two customer
\* forms and with the order form
BikeForm(full_name, email, phone_number) ==
  [full_name |-> full_name, email |-> email, phone_number |-> phone_number,
   brand |-> <<"X">>]

BikeForms ==
  {BikeForm(<<"A", "n">>, <<"A", "@", "b", " ">>, <<"1", "2">>),
   BikeForm(<<"B", "o">>, <<"k", "@", "b">>, <<>>),
   BikeForm(<<"B", "o">>, <<>>, <<"3">>)}

NextProfiles ==
  \/ \E form \in BikeForms : CreateCustomerWithBike("create_customer_with_bike", form)
  \/ \E form \in BikeForms :
       CreateCustomerWithBike("quick_create_customer_with_bike", form)
  \/ \E form \in CustomerForms : CreateServiceOrderNewCustomer(form)
  \/ BrokerFails
  \/ BrokerRecovers

SpecProfiles == Init /\ [][NextProfiles]_vars

\* SpecLoyalty: the loyalty statistics over the orders of a profile; a price
\* is any Decimal the detail form parsed, signed ones included
PriceCents == {0, 199, 250, 2900, -300}
LoyaltyRows == [price : PriceCents, completed_at : {Null, 2}]

NextLoyalty ==
  \E rows \in SeqsUpTo(LoyaltyRows, MaxRows) : LoyaltyStatsForProfile(rows)

SpecLoyalty == Init /\ [][NextLoyalty]_vars

\* SpecPortal: customers made and invited by the staff write tickets for
\* their orders
PortalForms ==
  {CustomerForm(<<>>, <<"B", "o">>, <<"z", "@", "b">>, <<>>),
   CustomerForm(<<"1">>, <<"B", "o">>, <<"k", "@", "b">>, <<>>)}

NextPortal ==
  \/ CreateCustomerWithBike("create_customer_with_bike",
                            BikeForm(<<"A", "n">>, <<"A", "@", "b", " ">>, <<"1", "2">>))
  \/ \E form \in PortalForms : CreateServiceOrderNewCustomer(form)
  \/ \E o \in 1..MaxOrders : Load(1, o)
  \/ \E p \in 1..MaxProfiles :
       p <= Len(profiles) /\ InviteCustomerPortal(1, profiles[p].email)
  \/ \E uid \in 1..MaxUsers :
       /\ uid <= Len(users)
       /\ CustomerSetPassword(uid, make_token(uid, users[uid]), StrongPass, StrongPass)
  \/ \E u \in 1..MaxUsers, order_id \in 1..MaxOrders + 1 :
       CustomerTicketCreatePost(u, order_id, TRUE)
  \/ \E u \in 1..MaxUsers, ticket_id \in 1..MaxTickets, has_text \in BOOLEAN :
       CustomerTicketDetailPost(u, ticket_id, has_text)

SpecPortal == Init /\ [][NextPortal]_vars

\* ------------------------------------------------------------- properties
Consistent(row) == (row.completed_at # Null) <=> (row.status = DONE)

\* worker w answers its request in this step
Answers(w) == pc[w] # "idle" /\ pc'[w] = "idle"

\* worker w writes the order row in this step (the handler got past its
\* validation and reached its save)
Commits(w) ==
  /\ pc[w] = "loaded"
  /\ pc'[w] # "loaded"
  /\ (pc'[w] = "idle" => last'.result \in {"success", "server_error"})

\* the record of the request worker w has just committed
CommitRecord(w) == IF pc[w] = "idle" THEN last.request ELSE req[w]

StatusOps == {"row_update_status", "detail_save"}

\* a price input with a character that is no digit, comma or point
NonNumeric(s) == \E i \in 1..Len(s) : s[i] \notin Digits \cup {",", "."}

\* C1: every order has completed_at set if and only if its status is DONE,
\* in every state reached by the staff operations (admin-site save included).
C1_CompletedIffDone == \A o \in 1..Len(orders) : Consistent(orders[o])

\* C2: a request of row_update_status or of the detail form that moves an
\* order from a non-DONE status with completed_at null into DONE enqueues
\* the "service complete" notification and appends an EMAIL_DONE log entry
\* when the customer has an email, and sends nothing when there is none.
C2_EnteringDoneNotifies ==
  [][\A w \in Workers :
       (/\ Answers(w)
        /\ last'.result = "success"
        /\ last'.request.op \in StatusOps
        /\ last'.request.statusBefore # DONE
        /\ last'.request.completedBefore = Null
        /\ last'.request.statusAfter = DONE)
       => LET o == last'.request.order
          IN IF customerEmail[o]
             THEN /\ outbox' = Append(outbox, [order |-> o, kind |-> "service_done"])
                  /\ logs' = Append(logs, [order |-> o, kind |-> "EMAIL_DONE"])
             ELSE outbox' = outbox]_vars

\* C3: a read of the dashboard counts never returns a cached snapshot that
\* was stored before an invalidate_dashboard_cache call that has returned.
C3_InvalidationObserved == lastGet.hit => lastGet.gen = lastGet.genAtRead

\* C4: row_update_status and the detail form with target DONE set
\* completed_at to the current time when it was null and leave it unchanged
\* when it was already set.
C4_CompletedAtSetOnce ==
  [][\A w \in Workers :
       (/\ Commits(w)
        /\ CommitRecord(w)'.op \in StatusOps
        /\ CommitRecord(w)'.statusAfter = DONE)
       => LET o == CommitRecord(w)'.order
          IN orders'[o].completed_at =
               IF orders[o].completed_at = Null THEN now' ELSE orders[o].completed_at]_vars

C4_Witness ==
  /\ last.result = "success"
  /\ last.request.op = "row_update_status"
  /\ last.request.statusBefore = DONE
  /\ last.request.statusAfter = DONE
  /\ last.request.completedBefore # Null
  /\ last.request.completedBefore < now
  /\ last.request.completedAfter = last.request.completedBefore

\* C5: every operation that moves an order from DONE to another status
\* clears completed_at and sends no notification and writes no EMAIL_DONE
\* log entry.
C5_LeavingDoneClears ==
  [][\A w \in Workers :
       (/\ Commits(w)
        /\ CommitRecord(w)'.statusBefore = DONE
        /\ CommitRecord(w)'.statusAfter # DONE)
       => /\ orders'[CommitRecord(w)'.order].completed_at = Null
          /\ ~CommitRecord(w)'.notify]_vars

\* C6: every request that has changed the status or completed_at of an
\* order, created an order or applied a package has called
\* invalidate_dashboard_cache by the time it answers.
C6_MutationsInvalidate ==
  (/\ last.result = "success"
   /\ \/ last.request.op \in {"create", "apply_service_package"}
      \/ last.request.statusBefore # last.request.statusAfter
      \/ last.request.completedBefore # last.request.completedAfter)
  => last.request.invalidated

\* C7: over every invalidate_dashboard_cache call the version as read by
\* get_staff_dashboard_counts does not decrease, the ValueError fallback
\* included.
C7_VersionNeverDecreases ==
  [][\A w \in Workers :
       (Answers(w) /\ last'.request.invalidated)
       => ReadVersion(cacheVersion') >= last'.request.verAtCall]_vars

\* C8: under concurrent row_update_status and detail-form requests every
\* row they write has completed_at set if and only if its status is DONE.
C8_ConcurrentWritesConsistent ==
  [][\A w \in Workers :
       (Commits(w) /\ CommitRecord(w)'.op \in StatusOps)
       => Consistent(orders'[CommitRecord(w)'.order])]_vars

C8_Witness ==
  /\ last.result = "success"
  /\ last.request.op \in StatusOps
  /\ last.request.stale
  /\ last.request.statusAfter = DONE
  /\ last.request.completedBefore # last.request.completedAfter

\* C9: a detail-form save writes back the row it read, with the form applied
\* to it, whatever other requests have written to the order in between, and
\* answers with success.
C9_StaleCopyWrittenBack ==
  [][\A w \in Workers :
       (/\ pc[w] = "loaded"
        /\ pc'[w] # "loaded"
        /\ CommitRecord(w)'.op = "detail_save")
       => /\ pc'[w] = "idle" => last'.result = "success"
          /\ \E form \in ConcForms :
               orders'[CommitRecord(w)'.order] =
                 DetailFormInstance(loaded[w], form, now')]_vars

C9_Witness ==
  /\ last.result = "success"
  /\ last.request.op = "detail_save"
  /\ last.request.stale
  /\ last.request.lost

C11_PackageSetsFields ==
  [][\A w \in Workers :
       (Commits(w) /\ CommitRecord(w)'.op = "apply_service_package")
       => LET row == orders'[CommitRecord(w)'.order]
              package == SERVICE_PACKAGE_DEFS[CommitRecord(w)'.package]
          IN /\ row.price = package.price
             /\ row.work_done = package.work_done
             /\ DOMAIN row.checklist = CHECKLIST_DEFS
             /\ Cardinality(DOMAIN row.checklist) = 8
             /\ \A key \in CHECKLIST_DEFS :
                  row.checklist[key] <=> key \in package.checklist_keys]_vars

C11_Witness ==
  /\ last.result = "success"
  /\ last.request.op = "apply_service_package"
  /\ last.request.package = "brake_setup"
  /\ "chain" \in DOMAIN last.request.checklistBefore
  /\ last.request.checklistBefore["chain"]
  /\ orders[last.request.order].price = 3900
  /\ ~orders[last.request.order].checklist["chain"]

\* C12: a detail-form save without any cl_<key> marker leaves the stored
\* checklist unchanged; a save with at least one marker replaces the whole
\* mapping, each of the eight items being true iff its marker carries a
\* non-empty value.
C12_ChecklistPresenceGated ==
  [][\A w \in Workers :
       (Commits(w) /\ CommitRecord(w)'.op = "detail_save")
       => LET o == CommitRecord(w)'.order
              cl == CommitRecord(w)'.cl
          IN IF \A key \in CHECKLIST_DEFS : key \notin DOMAIN cl
             THEN orders'[o].checklist = orders[o].checklist
             ELSE /\ DOMAIN orders'[o].checklist = CHECKLIST_DEFS
                  /\ \A key \in CHECKLIST_DEFS :
                       orders'[o].checklist[key] <=> (key \in DOMAIN cl /\ cl[key] # "")]_vars

C12_Witness ==
  /\ last.result = "success"
  /\ last.request.op = "detail_save"
  /\ DOMAIN last.request.cl = {}
  /\ "brakes" \in DOMAIN last.request.checklistBefore
  /\ last.request.checklistBefore["brakes"]
  /\ orders[last.request.order].checklist = last.request.checklistBefore

\* C13: every invalidate_dashboard_cache call returns normally with the
\* version key present; when cache.incr found the key absent the counter is
\* 1 afterwards.
C13_FallbackReturnsNormally ==
  [][\A w \in Workers :
       (Answers(w) /\ last'.request.invalidated)
       => /\ last'.result = "success"
          /\ cacheVersion' # Absent
          /\ (last'.request.fallback => cacheVersion' = 1)]_vars

C13_Witness ==
  /\ last.result = "success"
  /\ last.request.invalidated
  /\ last.request.fallback
  /\ cacheVersion = 1

\* C14: with the version key present, the counter equals the number of
\* invalidate_dashboard_cache calls that have returned, in every interleaving
\* of the workers: no increment is lost.
C14_NoLostIncrement == cacheVersion # Absent => cacheVersion = gen

C14_Witness ==
  /\ last.request.invalidated
  /\ last.request.verAtCall >= 1
  /\ cacheVersion >= last.request.verAtCall + 2
  /\ \A w \in Workers : pc[w] = "idle"

\* C15: no login attempt is answered with a server error: is_rate_limited
\* returns a boolean also when its key expires or is deleted between its add
\* and its incr.
C15_RateLimitNeverRaises == last.request.op = "login" => last.result # "server_error"

\* C16: a detail-form save that moves an order to DONE is answered with
\* success and leaves status DONE and completed_at set, whether or not the
\* hand-off of the notification succeeds, and a failed delivery changes no
\* order.
C16_NotificationFailureHarmless ==
  [][/\ \A w \in Workers :
          (/\ Answers(w)
           /\ last'.request.op = "detail_save"
           /\ last'.request.statusBefore # DONE
           /\ last'.request.statusAfter = DONE)
          => /\ last'.result = "success"
             /\ orders'[last'.request.order].status = DONE
             /\ orders'[last'.request.order].completed_at # Null
     /\ (delivery' # delivery => orders' = orders)]_vars

\* C17: the unfinished_count returned to a GET of the service panel equals
\* the number of orders whose status is not DONE at the time of the request.
C17_UnfinishedCountCurrent == lastGet.data.unfinished_count = lastGet.unfinished

\* C18: get_staff_dashboard_counts never returns a snapshot stored more than
\* the TTL ago, and a read made when the TTL has passed since the snapshot
\* was stored returns the current counts.
C18_StalenessBounded ==
  /\ lastGet.hit => lastGet.age <= SERVICE_DASHBOARD_CACHE_TTL
  /\ lastGet.fresh \/ (lastGet.hit /\ lastGet.age < SERVICE_DASHBOARD_CACHE_TTL)

C18_Witness ==
  /\ ~lastGet.hit
  /\ lastGet.expired
  /\ last.result = "success"
  /\ last.request.op = "admin_save"
  /\ ~last.request.invalidated
  /\ last.request.statusBefore # DONE
  /\ last.request.statusAfter = DONE
  /\ lastGet.data.unfinished_count = 0

\* the rows whose service code contains the digits of an exact lookup
CodeHolders(rows, code) == {o \in rows : IContains(o.service_code, code)}

\* C19 as stated: a query of an optional '#' and digits over orders of which
\* exactly one has a code containing the digits returns exactly that order.
C19_ExactLookupSingle ==
  LET code == CodeMatch(Strip(lastSearch.query))
  IN (Len(code) > 0 /\ Cardinality(CodeHolders(lastSearch.rows, code)) = 1)
     => lastSearch.found = CodeHolders(lastSearch.rows, code)

\* C19 as amended: a query of an optional '#' and digits over orders of which
\* exactly one has a code containing the digits, and no other order has the
\* number as its identifier, returns exactly that order; in every exact
\* lookup an order that has the digits only in its free text is not returned.
C19_ExactLookupByIdOrCode ==
  LET code == CodeMatch(Strip(lastSearch.query))
      holders == CodeHolders(lastSearch.rows, code)
  IN Len(code) > 0
     => /\ (/\ Cardinality(holders) = 1
            /\ \A o \in lastSearch.rows : o.id = DigitsValue(code) => o \in holders)
           => lastSearch.found = holders
        /\ \A o \in lastSearch.found : o.id = DigitsValue(code) \/ o \in holders

C19_Witness ==
  /\ lastSearch.query = <<"#", "7", "7">>
  /\ \E o \in lastSearch.rows : o.id = 2 /\ IContains(o.issue_description, <<"7", "7">>)
  /\ Cardinality(lastSearch.found) = 1
  /\ \A o \in lastSearch.found : o.id = 1 /\ o.service_code = <<"A", "B", "-", "7", "7">>

\* C20: for a query of several tokens that is not an exact lookup, an order
\* is in the result if and only if every token matches it in at least one
\* searchable field.
C20_AllTokensMustMatch ==
  LET q == Strip(lastSearch.query)
      tokens == Split(q)
  IN (Len(q) > 0 /\ Len(CodeMatch(q)) = 0 /\ Len(tokens) >= 2)
     => lastSearch.found =
          {o \in lastSearch.rows : \A i \in 1..Len(tokens) : TokenMatches(o, tokens[i])}

C20_Witness ==
  /\ lastSearch.query = <<"a", "n", "n", " ", "l", "e", "e">>
  /\ \E o \in lastSearch.found : o.id = 3
  /\ \E o \in lastSearch.rows \ lastSearch.found : o.id = 2

C22_ResultDeduplicated ==
  /\ DOMAIN lastSearch.count \subseteq lastSearch.rows
  /\ lastSearch.found \subseteq lastSearch.rows
  /\ \A o \in DOMAIN lastSearch.count :
       /\ lastSearch.count[o] <= 1
       /\ lastSearch.count[o] = 1 <=> o \in lastSearch.found

C22_Witness ==
  /\ lastSearch.query = <<"a", "n", "n">>
  /\ \E o \in lastSearch.found :
       /\ o.id = 3
       /\ TokenRowCount(o, <<<<"a", "n", "n">>>>) >= 2
       /\ lastSearch.count[o] = 1

\* C23: _eta_meta returns warn = true exactly when the order has a promised
\* date, has no completed_at and the promised date is at most one day after
\* today.
C23_WarnExactlyWhenDue ==
  lastCall.fn = "eta_meta"
  => (lastCall.result.warn
      <=> (/\ lastCall.promised_date # Null
           /\ lastCall.completed_at = Null
           /\ lastCall.promised_date <= lastCall.today + 1))

C23_Witness ==
  /\ lastCall.fn = "eta_meta"
  /\ lastCall.completed_at = Null
  /\ lastCall.promised_date = lastCall.today + 2
  /\ ~lastCall.result.warn

\* C24: the chip of _eta_meta is gray without a promised date, gray for a
\* completed order whatever its date, orange exactly for a non-completed
\* order past its date, blue exactly for a non-completed order 0, 1 or 2 days
\* ahead, and gray from 3 days ahead.
C24_SeverityByPriority ==
  lastCall.fn = "eta_meta"
  => LET promised == lastCall.promised_date
         open == promised # Null /\ lastCall.completed_at = Null
         chip == lastCall.result.chip
     IN /\ chip \in {"chip-gray", "chip-orange", "chip-blue"}
        /\ chip = "chip-orange" <=> (open /\ lastCall.today > promised)
        /\ chip = "chip-blue" <=> (open /\ promised - lastCall.today \in {0, 1, 2})

C24_Witness ==
  /\ lastCall.fn = "eta_meta"
  /\ lastCall.completed_at # Null
  /\ lastCall.promised_date # Null
  /\ lastCall.today > lastCall.promised_date
  /\ lastCall.result.chip = "chip-gray"

\* C25: avg_repair_days is exactly 0 when no order is completed and when
\* every completed order has completed_at earlier than created_at, and rows
\* with such timestamps never contribute: the average is that of the other
\* rows alone.
C25_AverageIgnoresInvalidRows ==
  lastCall.fn = "avg_repair_days"
  => LET rows == lastCall.rows
         valid == SelectSeq(rows, LAMBDA row : row.completed_at = Null
                                              \/ row.completed_at >= row.created_at)
     IN /\ (\A i \in 1..Len(rows) : rows[i].completed_at = Null
                                    \/ rows[i].completed_at < rows[i].created_at)
           => lastCall.result = 0
        /\ lastCall.result = avg_repair_days(valid)
        /\ lastCall.result >= 0

C25_Witness ==
  /\ lastCall.fn = "avg_repair_days"
  /\ Len(lastCall.rows) = 2
  /\ \A i \in 1..2 : /\ lastCall.rows[i].completed_at # Null
                     /\ lastCall.rows[i].completed_at < lastCall.rows[i].created_at
  /\ lastCall.result = 0

\* C26: after every operation that appends a message to a ticket or writes
\* its status, the ticket's updated_at is not earlier than the time of that
\* operation.
C26_UpdatedAtRefreshed ==
  (/\ lastCall.fn \in {"customer_ticket_create", "customer_ticket_detail",
                       "admin_ticket_detail", "TicketAdmin", "TicketMessageAdmin"}
   /\ lastCall.appended \/ lastCall.status_saved)
  => tickets[lastCall.ticket].updated_at >= lastCall.at

\* C27: no operation updates or deletes an entry of the audit log: the
\* sequence of entries only grows and the entries it holds stay as inserted.
C27_LogAppendOnly ==
  [][/\ Len(logs') >= Len(logs)
     /\ \A i \in 1..Len(logs) : logs'[i] = logs[i]]_vars

\* the profiles a posted customer matches: those of its email, compared
\* without case, or, if there is none, those of its phone number
Matching(tbl, new_email, new_phone) ==
  LET by_email == {i \in 1..Len(tbl) : Lower(tbl[i].email) = Lower(new_email)}
  IN IF by_email # {} THEN by_email
     ELSE {i \in 1..Len(tbl) : Len(new_phone) > 0 /\ tbl[i].phone_number = new_phone}

C29_LockedUntilPasswordSet ==
  /\ \A u \in 1..Len(users) :
       ~users[u].has_set
       => /\ users[u].password = Unusable
          /\ \A password \in PasswordInputs \cup {Unusable} :
               authenticate(users, users[u].username, Strip(password)) # u
  /\ (lastCall.fn = "customer_set_password" /\ lastCall.result = "success")
     => /\ lastCall.uid \in 1..Len(lastCall.before)
        /\ lastCall.token = [uid |-> lastCall.uid,
                             password |-> lastCall.before[lastCall.uid].password]
        /\ lastCall.new_password = lastCall.new_password2
        /\ Len(lastCall.new_password) >= MinimumLength
        /\ ~IsDigit(lastCall.new_password)
        /\ lastCall.new_password \notin CommonPasswords
        /\ users[lastCall.uid].password # Unusable
        /\ authenticate(users, users[lastCall.uid].username, lastCall.new_password)
             = lastCall.uid

C29_Witness ==
  /\ lastCall.fn = "authenticate"
  /\ lastCall.user # 0
  /\ users[lastCall.user].has_set
  /\ Len(users) = 2
  /\ \E u \in 1..2 : ~users[u].has_set

\* C30: a row update of the service panel that fails, because its order id
\* is not numeric or names no order or because its status is not one of the
\* five, is answered with a not-found response, modifies no order and leaves
\* the dashboard version as it is.
C30_MissingOrderNotFound ==
  [][\A w \in Workers :
       (/\ Answers(w)
        /\ last'.request.op \in {"row_update_status", "row_update_eta"}
        /\ last'.result \notin {"success", "server_error"})
       => /\ last'.result = "not_found"
          /\ orders' = orders
          /\ cacheVersion' = cacheVersion]_vars

\* C31: row_update_status on an existing order with any of the five statuses
\* as new_status, whatever the status of the order, leaves the order in that
\* status and is answered with success; a DONE order is reopened like that.
C31_AnyTransitionAllowed ==
  [][\A w \in Workers :
       /\ \A t \in Status :
            RowUpdateStatus(w, t)
            => /\ orders'[req[w].order].status = t
               /\ Answers(w) => last'.result = "success"
       /\ (Answers(w) /\ pc[w] = "incr" /\ req[w].op = "row_update_status")
          => last'.result = "success"]_vars

C31_Witness ==
  /\ last.request.op = "row_update_status"
  /\ last.result = "success"
  /\ last.request.statusBefore = DONE
  /\ last.request.statusAfter = "WAITING_PART"
  /\ orders[last.request.order].status = "WAITING_PART"

\* C32: a request enqueues the "service complete" notification and appends
\* an EMAIL_DONE entry only for an entry of the order into DONE, that is when
\* the stored row was not DONE and had no completed_at when the request
\* wrote it, and then at most one of each; two detail-form saves that both
\* set the same order to DONE notify once.
C32_NotifyOncePerEntry ==
  [][\A w \in Workers :
       (/\ Answers(w)
        /\ Len(outbox') > Len(outbox) \/ Len(logs') > Len(logs))
       => /\ last'.request.statusBefore # DONE
          /\ last'.request.completedBefore = Null
          /\ Len(outbox') <= Len(outbox) + 1
          /\ Len(logs') <= Len(logs) + 1]_vars

\* C33: within a window every call of is_rate_limited that returns takes the
\* next count of the key; it returns False when that count is at most the
\* limit and True when it is above, so exactly the first LoginLimit calls
\* pass, under every interleaving; no call moves the end of the window, and
\* the key lasts exactly window_seconds unless a login resets it.
C33_ExactlyLimitPass ==
  [][/\ \A w \in Workers :
          /\ (pc[w] \in {"idle", "rl_incr"} /\ pc'[w] = "auth")
             => /\ rateCount' = (IF rateCount = Absent THEN 0 ELSE rateCount) + 1
                /\ rateCount' <= LoginLimit
          /\ (Answers(w) /\ last'.result = "rate_limited")
             => /\ rateCount' = rateCount + 1
                /\ rateCount' > LoginLimit
     /\ (rateCount # Absent /\ rateCount' # Absent) => rateStoredAt' = rateStoredAt
     /\ rateCount' # Absent => clock' < rateStoredAt' + LoginWindow]_vars

C33_Witness ==
  /\ last.request.op = "login"
  /\ last.result = "rate_limited"
  /\ rateCount = LoginLimit + 1
  /\ clock > rateStoredAt

\* the ticket operations of the customer portal and those of the staff
CustomerTicketOps == {"customer_ticket_create", "customer_ticket_detail"}
StaffTicketOps == {"admin_ticket_detail", "TicketAdmin", "TicketMessageAdmin"}

\* C34: a customer POST to a CLOSED ticket appends no message, leaves the
\* status CLOSED and does not invalidate the dashboard cache; a CLOSED ticket
\* is changed by staff operations only, and leaves CLOSED only by a status
\* written by the staff.
C34_ClosedTicketFrozen ==
  [][\A i \in 1..Len(tickets) :
       tickets[i].status = "CLOSED"
       => /\ (/\ lastCall' # lastCall
              /\ lastCall'.fn = "customer_ticket_detail"
              /\ lastCall'.ticket = i)
             => /\ tickets' = tickets
                /\ cacheVersion' = cacheVersion
                /\ gen' = gen
          /\ tickets'[i] # tickets[i] => lastCall'.fn \in StaffTicketOps
          /\ tickets'[i].status # "CLOSED"
             => /\ lastCall'.fn \in {"admin_ticket_detail", "TicketAdmin"}
                /\ lastCall'.status_saved]_vars

C34_Witness ==
  /\ lastCall.fn = "customer_ticket_detail"
  /\ lastCall.has_text
  /\ ~lastCall.appended
  /\ tickets[lastCall.ticket].status = "CLOSED"
  /\ tickets[lastCall.ticket].updated_at < lastCall.at

\* C35: the message a reply view appends decides the status: WAITING_ADMIN
\* after a message of the customer, WAITING_CUSTOMER after a message the
\* staff appends with admin_ticket_detail, whatever status the same request
\* selected; a staff POST that leaves the ticket CLOSED appends no message.
C35_StatusFollowsAuthor ==
  [][LET i == lastCall'.ticket
     IN lastCall' # lastCall =>
        /\ (lastCall'.fn \in CustomerTicketOps /\ lastCall'.appended)
           => /\ tickets'[i].status = "WAITING_ADMIN"
              /\ tickets'[i].messages[Len(tickets'[i].messages)] = "CUSTOMER"
        /\ (lastCall'.fn = "admin_ticket_detail" /\ lastCall'.appended)
           => /\ tickets'[i].status = "WAITING_CUSTOMER"
              /\ tickets'[i].messages = Append(tickets[i].messages, "ADMIN")
        /\ (lastCall'.fn = "admin_ticket_detail" /\ tickets'[i].status = "CLOSED")
           => /\ ~lastCall'.appended
              /\ tickets'[i].messages = tickets[i].messages]_vars

C35_Witness ==
  /\ lastCall.fn = "admin_ticket_detail"
  /\ lastCall.appended
  /\ lastCall.new_status = "OPEN"
  /\ tickets[lastCall.ticket].status = "WAITING_CUSTOMER"

\* the job handed to the broker with each kind of log entry
JobOfLog == [k \in {"SMS", "EMAIL_INVITE", "EMAIL_PROTOCOL"} |->
               IF k = "SMS" THEN "sms"
               ELSE IF k = "EMAIL_INVITE" THEN "invite" ELSE "protocol"]

\* C36: a log entry of kind SMS, EMAIL_INVITE or EMAIL_PROTOCOL is appended
\* in exactly the steps that hand the corresponding job to the broker, and a
\* send_sms with an empty phone or text, an invitation and a protocol email
\* for a customer without email hand over nothing and log nothing.
C36_LoggedIffDispatched ==
  [][/\ \A k \in DOMAIN JobOfLog :
          (/\ Len(logs') = Len(logs) + 1
           /\ logs'[Len(logs')].kind = k)
          <=> (/\ Len(outbox') = Len(outbox) + 1
               /\ outbox'[Len(outbox')].kind = JobOfLog[k])
     /\ \A w \in Workers :
          (/\ Answers(w)
           /\ \/ /\ last'.request.op = "send_sms"
                 /\ \/ Len(Strip(last'.request.phone)) = 0
                    \/ Len(Strip(last'.request.text)) = 0
              \/ /\ last'.request.op \in {"invite_customer_portal", "send_protocol_email"}
                 /\ ~customerEmail[last'.request.order])
          => /\ outbox' = outbox
             /\ logs' = logs]_vars

C36_Witness ==
  /\ last.request.op = "invite_customer_portal"
  /\ last.result = "success"
  /\ Len(logs) = 2
  /\ logs[2].kind = "EMAIL_INVITE"
  /\ outbox[2].kind = "invite"
  /\ logs[1].kind = "SMS"

\* C37: apply_service_package writes only price, work_done and checklist of
\* its order: the stored status, completed_at, promised_date and
\* issue_description are the same before and after, no other row changes,
\* nothing is enqueued or logged; for an unknown package key nothing is
\* written and the dashboard version is not incremented.
C37_PackageWritesOnlyItsColumns ==
  [][\A w \in Workers :
       /\ (Commits(w) /\ CommitRecord(w)'.op = "apply_service_package")
          => /\ \A c \in {"status", "completed_at", "promised_date", "issue_description"} :
                  orders'[CommitRecord(w)'.order][c] = orders[CommitRecord(w)'.order][c]
             /\ \A o \in 1..Len(orders) :
                  o # CommitRecord(w)'.order => orders'[o] = orders[o]
             /\ Len(orders') = Len(orders)
             /\ outbox' = outbox
             /\ logs' = logs
       /\ (Answers(w) /\ last'.request.op = "apply_service_package")
          => /\ outbox' = outbox
             /\ logs' = logs
             /\ last'.result = "error"
                => /\ orders' = orders
                   /\ cacheVersion' = cacheVersion
                   /\ gen' = gen
                   /\ ~last'.request.invalidated]_vars

C37_Witness ==
  /\ last.result = "success"
  /\ last.request.op = "apply_service_package"
  /\ last.request.package = "basic"
  /\ last.request.stale
  /\ last.request.statusBefore = "DONE"
  /\ orders[last.request.order].status = "DONE"
  /\ orders[last.request.order].completed_at # Null
  /\ orders[last.request.order].price = 2900

\* C39: no two customer profiles have the same email compared without case,
\* in every state reached by create_customer_with_bike,
\* quick_create_customer_with_bike and create_service_order (with or without
\* edit_customer_id).
C39_EmailsDistinct ==
  \A i, j \in 1..Len(profiles) :
    i # j => Lower(profiles[i].email) # Lower(profiles[j].email)

\* the sum of the prices of the rows with completed_at set, in cents
RECURSIVE CompletedTotal(_)
CompletedTotal(rows) ==
  IF Len(rows) = 0 THEN 0
  ELSE (IF Head(rows).completed_at # Null THEN Head(rows).price ELSE 0)
       + CompletedTotal(Tail(rows))

\* C40: with T the sum of the prices of the customer's orders that have
\* completed_at set, the loyalty statistics are points = floor(T / 2),
\* discount = floor(points / 10), and points_to_next in 0..9 with
\* points + points_to_next divisible by 10.
C40_LoyaltyArithmetic ==
  lastCall.fn = "_loyalty_stats_for_profile"
  => LET T == CompletedTotal(lastCall.rows)
         r == lastCall.result
     IN /\ r.loyalty_total_spent = T
        /\ r.loyalty_points * 200 <= T
        /\ T < (r.loyalty_points + 1) * 200
        /\ r.loyalty_discount_eur * 10 <= r.loyalty_points
        /\ r.loyalty_points < (r.loyalty_discount_eur + 1) * 10
        /\ r.loyalty_points_to_next_eur \in 0..9
        /\ (r.loyalty_points + r.loyalty_points_to_next_eur) % 10 = 0

\* every message of a customer is on a ticket of an order whose bike belongs
\* to the profile of its author
CustomerMessagesOwned ==
  \A i \in 1..Len(tickets) :
    \A k \in 1..Len(tickets[i].messages) :
      (tickets[i].messages[k] = "CUSTOMER" /\ tickets[i].authors[k] # 0)
      => /\ CustomerOfOrder(tickets[i].order) # 0
         /\ profiles[CustomerOfOrder(tickets[i].order)].user = tickets[i].authors[k]

\* C38: a customer_ticket_detail or customer_ticket_create POST addressed to
\* a ticket or an order that is not on a bike of the user's profile answers
\* not-found and creates no ticket and no message, and every message with
\* role CUSTOMER is on a ticket whose order's bike belongs to the profile
\* of its author.
C38_OwnTicketsOnly ==
  [][/\ (/\ lastCall' # lastCall
         /\ lastCall'.fn \in CustomerTicketOps
         /\ lastCall'.profile # 0
         /\ LET o == IF lastCall'.fn = "customer_ticket_create" THEN lastCall'.target
                     ELSE IF lastCall'.target \in 1..Len(tickets)
                     THEN tickets[lastCall'.target].order ELSE 0
            IN CustomerOfOrder(o) # lastCall'.profile)
        => /\ lastCall'.result = "not_found"
           /\ tickets' = tickets
           /\ cacheVersion' = cacheVersion
     /\ CustomerMessagesOwned']_vars

====
